---- MODULE Spec2Model ----
(***************************************************************************)
(* Usage ledger (server/storage.ts), the HTTP routes that use it           *)
(* (server/routes.ts) and the result normalizer (identifyBirdWithGemini).  *)
(*                                                                         *)
(* JavaScript values of mixed type are tagged records: [t |-> "null"],     *)
(* [t |-> "undefined"], [t |-> "number", v |-> n], [t |-> "string", ...],  *)
(* [t |-> "date", day |-> d].  A Date is its calendar day, the only part   *)
(* toDateString() comparisons look at.  Numbers of the normalizer are in   *)
(* tenths, so that Math.round has something to round.                      *)
(***************************************************************************)
EXTENDS Integers, Sequences, FiniteSets, TLC

\* ---- bounds of the model ----
MaxUsers == 1
MaxDay == 1
MaxCount == 6
MaxIdent == 2
MaxSimilar == 2
\* the store specifications: accounts, records per store, clock ticks, foreign records
MaxOwners == 2
MaxHistory == 5
MaxStored == 31
MaxSightings == 11
MaxClock == 1
MaxForeign == 1
\* calls or requests that overlap
MaxCalls == 2

\* ---- program constants ----
\* IEEE +Infinity: an integer above every finite number the model can reach.
Infinity == 1000000
FreePerDay == 5
UnboundedMarker == -1
FreeHistory == 3
PremiumHistory == 30
FreeSightings == 10
SubscriptionDays == 30
DefaultLimit == 10
\* AudioRecorder: maxDuration = 15 seconds, in tenths (the timer adds 0.1 each 100 ms)
DefaultMaxDuration == 150
NullUserId == 0

VARIABLES
    users,                    \* MemStorage.users: id -> User
    userIdCounter,            \* MemStorage.userIdCounter
    identifications,          \* MemStorage.identifications: the records in insertion order
    identificationIdCounter,  \* MemStorage.identificationIdCounter
    sightings,                \* MemStorage.sightings: the records in insertion order
    sightingIdCounter,        \* MemStorage.sightingIdCounter
    today,                    \* calendar day of new Date()
    clock,                    \* millisecond of new Date() within the day
    last,                     \* the last call or request and what it returned
    streak,                   \* history: consecutive same-day increments per user
    created,                  \* history: successful createIdentification calls per userId
    calls,                    \* the async calls and requests in flight: where each awaits
    recorder,                 \* client: the AudioRecorder component, its state and refs
    input,                    \* normalizer: the AI response under normalization
    outcome                   \* normalizer: what identifyBirdWithGemini produced

vars == <<users, userIdCounter, identifications, identificationIdCounter,
          sightings, sightingIdCounter, today, clock, last, streak, created,
          calls, recorder, input, outcome>>

ledgerVars == <<users, userIdCounter, identifications, identificationIdCounter,
                today, last, streak, created, calls, recorder>>

\* ---- JavaScript values ----
JNull == [t |-> "null"]
Undefined == [t |-> "undefined"]
\* a JavaScript number, in tenths (Tenths(15) is 1.5)
Tenths(x) == [t |-> "number", tenths |-> x]
JNum(n) == Tenths(10 * n)
JStr(s) == [t |-> "string", v |-> s]
JDate(d) == [t |-> "date", day |-> d]
\* a Date of which the time of day matters: new Date() stored in a record
Instant(day, ms) == [t |-> "date", day |-> day, ms |-> ms]
\* Date.getTime()
getTime(d) == d.day * (MaxClock + 1) + d.ms

\* the elements of a sequence
Range(seq) == {seq[i] : i \in 1..Len(seq)}

\* Math.max, Math.min
Max(a, b) == IF a >= b THEN a ELSE b
Min(a, b) == IF a <= b THEN a ELSE b

\* JSON.stringify of a number: Infinity has no JSON form and is written null.
JsonNumber(n) == IF n = Infinity THEN JNull ELSE JNum(n)

UserIds == 1..MaxUsers
\* the calls or requests that can be in flight together
CallIds == 1..MaxCalls
\* a call that has not been made
Idle == [pc |-> "idle"]
\* the accounts of the store specifications
OwnerIds == 1..MaxOwners
Plans == {"free", "premium"}

\* ---- shared/schema.ts ----
subscriptionLimitsMap ==
    [p \in Plans |->
        IF p = "free"
        THEN [identifications |-> [perDay |-> FreePerDay, history |-> FreeHistory],
              sightings |-> [total |-> FreeSightings]]
        ELSE [identifications |-> [perDay |-> Infinity, history |-> PremiumHistory],
              sightings |-> [total |-> Infinity]]]

\* ---- server/storage.ts ----
NotFound(id) == [message |-> "User with id not found", id |-> id]

\* { ...user, ...updates }
Merge(user, updates) ==
    [f \in DOMAIN user |-> IF f \in DOMAIN updates THEN updates[f] ELSE user[f]]

NewUser(id) ==
    [id |-> id,
     subscriptionPlan |-> "free",
     subscriptionEndDate |-> JNull,
     stripeCustomerId |-> JNull,
     stripeSubscriptionId |-> JNull,
     dailyIdentificationsCount |-> 0,
     lastIdentificationDate |-> JNull]

\* updateUser: the users map after the call (the caller has checked the id)
updateUser(us, id, updates) == [us EXCEPT ![id] = Merge(@, updates)]

\* getUser: this.users.get(id)
getUser(us, id) == IF id \in DOMAIN us THEN us[id] ELSE Undefined

\* ToBoolean of a nullable Date
HasDate(d) == d.t = "date"

\* new Date().toDateString() !== new Date(user.lastIdentificationDate).toDateString()
IsNewDay(user, now) ==
    IF HasDate(user.lastIdentificationDate)
    THEN now # user.lastIdentificationDate.day
    ELSE TRUE

\* mutant: the date is stamped but the counter is left as it was
resetKeepsCount(us, id, now) ==
    updateUser(us, id, [lastIdentificationDate |-> JDate(now)])

\* mutant: the counter is zeroed but the date is not stamped
resetWithoutStamp(us, id, now) ==
    updateUser(us, id, [dailyIdentificationsCount |-> 0])

resetDailyIdentificationCount(us, id, now) ==
    updateUser(us, id, [dailyIdentificationsCount |-> 0,
                        lastIdentificationDate |-> JDate(now)])

\* mutant: on a new day the stale counter is reported instead of 0
checkReportsStaleCount(us, id, now) ==
    LET current == us[id].dailyIdentificationsCount IN
    [users |-> IF IsNewDay(us[id], now)
               THEN updateUser(us, id, [dailyIdentificationsCount |-> 0,
                                        lastIdentificationDate |-> JDate(now)])
               ELSE us,
     ret |-> [withinLimit |-> us[id].subscriptionPlan = "premium" \/ current < FreePerDay,
              current |-> current,
              limit |-> FreePerDay]]

\* mutant: the count is compared with the marker that stands for no limit
checkComparesMarker(us, id, now) ==
    IF IsNewDay(us[id], now)
    THEN [users |-> resetDailyIdentificationCount(us, id, now),
          ret |-> [withinLimit |-> TRUE, current |-> 0, limit |-> FreePerDay]]
    ELSE LET limit == IF us[id].subscriptionPlan = "premium"
                      THEN UnboundedMarker ELSE FreePerDay
             current == us[id].dailyIdentificationsCount
         IN  [users |-> us,
              ret |-> [withinLimit |-> current < limit,
                       current |-> current,
                       limit |-> limit]]

\* mutant: the last identification of the quota is refused
checkAfterGetUserRefusingLast(us, user, id, now) ==
    IF IsNewDay(user, now)
    THEN [users |-> resetDailyIdentificationCount(us, id, now),
          ret |-> [withinLimit |-> TRUE, current |-> 0, limit |-> FreePerDay]]
    ELSE LET limit == IF user.subscriptionPlan = "premium" THEN Infinity ELSE FreePerDay
             current == user.dailyIdentificationsCount
         IN  [users |-> us,
              ret |-> [withinLimit |-> current + 1 < limit,
                       current |-> current,
                       limit |-> IF limit = Infinity THEN UnboundedMarker ELSE limit]]

\* checkDailyIdentificationLimit from line 138 on: user is what getUser(userId)
\* returned before the await, us is the users map now.  The users map after the
\* call and the DailyLimitCheckResult it returns.
checkAfterGetUser(us, user, id, now) ==
    IF IsNewDay(user, now)
    THEN [users |-> resetDailyIdentificationCount(us, id, now),
          ret |-> [withinLimit |-> TRUE, current |-> 0, limit |-> FreePerDay]]
    ELSE LET limit == IF user.subscriptionPlan = "premium" THEN Infinity ELSE FreePerDay
             current == user.dailyIdentificationsCount
         IN  [users |-> us,
              ret |-> [withinLimit |-> current < limit,
                       current |-> current,
                       limit |-> IF limit = Infinity THEN UnboundedMarker ELSE limit]]

\* the call when nothing runs between getUser and the rest
checkDailyIdentificationLimit(us, id, now) == checkAfterGetUser(us, us[id], id, now)

\* mutant: the day rollover is not looked at, the counter always grows by one
incrementWithoutRollover(us, id, now) ==
    LET count == us[id].dailyIdentificationsCount + 1
    IN  [users |-> updateUser(us, id, [dailyIdentificationsCount |-> count,
                                       lastIdentificationDate |-> JDate(now)]),
         ret |-> count]

\* incrementDailyIdentificationCount from line 163 on: user is what
\* getUser(userId) returned before the await, us is the users map now (updateUser
\* merges into the user it reads itself).  The users map after the call and the
\* count it returns.
incrementAfterGetUser(us, user, id, now) ==
    LET count == IF IsNewDay(user, now) THEN 1
                 ELSE user.dailyIdentificationsCount + 1
    IN  [users |-> updateUser(us, id, [dailyIdentificationsCount |-> count,
                                       lastIdentificationDate |-> JDate(now)]),
         ret |-> count]

\* the call when nothing runs between getUser and the rest
incrementDailyIdentificationCount(us, id, now) ==
    incrementAfterGetUser(us, us[id], id, now)

\* mutant: the change of plan starts a new day's count
updateUserSubscriptionResettingCount(us, id, plan, endDate) ==
    updateUser(us, id, [subscriptionPlan |-> plan, subscriptionEndDate |-> endDate,
                        dailyIdentificationsCount |-> 0])

updateUserSubscription(us, id, plan, endDate) ==
    updateUser(us, id, [subscriptionPlan |-> plan, subscriptionEndDate |-> endDate])

updateUserStripeInfo(us, id, customerId, subscriptionId) ==
    updateUser(us, id, [stripeCustomerId |-> customerId,
                        stripeSubscriptionId |-> subscriptionId])

\* array.filter(r => r.userId === userId)
FilterByUser(records, userId) == SelectSeq(records, LAMBDA r : r.userId = userId)

\* array.sort((a, b) => time(b) - time(a)) is a stable sort, newest first: a
\* record goes behind every record that is as new or newer and came before it.
\* key names the Date property compared.
RECURSIVE InsertNewestFirst(_, _, _)
InsertNewestFirst(sorted, r, key) ==
    IF sorted = <<>> THEN <<r>>
    ELSE IF getTime(Head(sorted)[key]) >= getTime(r[key])
         THEN <<Head(sorted)>> \o InsertNewestFirst(Tail(sorted), r, key)
         ELSE <<r>> \o sorted

RECURSIVE SortNewestFirst(_, _)
SortNewestFirst(records, key) ==
    IF records = <<>> THEN <<>>
    ELSE InsertNewestFirst(SortNewestFirst(SubSeq(records, 1, Len(records) - 1), key),
                           records[Len(records)], key)

\* array.slice(0, n) for n >= 0
Slice(records, n) == SubSeq(records, 1, IF n < Len(records) THEN n ELSE Len(records))

\* a limit argument: undefined or a number
LimitValue(limit) == limit.tenths \div 10

\* mutant: the plan's history limit is not applied
getRecentIdentificationsUncapped(us, ids, filtered, userId, limit) ==
    LET all == ids
        mine == IF filtered THEN FilterByUser(all, userId) ELSE all
        given == IF limit = Undefined THEN DefaultLimit ELSE LimitValue(limit)
    IN  Slice(SortNewestFirst(mine, "identifiedAt"), given)

\* mutant: the free plan's history limit is applied whatever the plan is
getRecentIdentificationsFreeCap(us, ids, filtered, userId, limit) ==
    LET all == ids
        mine == IF filtered THEN FilterByUser(all, userId) ELSE all
        given == IF limit = Undefined THEN DefaultLimit ELSE LimitValue(limit)
        capped == IF filtered /\ userId \in DOMAIN us
                  THEN Min(given, FreeHistory) ELSE given
    IN  Slice(SortNewestFirst(mine, "identifiedAt"), capped)

\* getRecentIdentifications(userId?, limit = 10); filtered is userId !== undefined
getRecentIdentifications(us, ids, filtered, userId, limit) ==
    LET all == ids
        mine == IF filtered THEN FilterByUser(all, userId) ELSE all
        given == IF limit = Undefined THEN DefaultLimit ELSE LimitValue(limit)
        historyLimit == IF us[userId].subscriptionPlan = "premium"
                        THEN PremiumHistory ELSE FreeHistory
        capped == IF filtered /\ userId \in DOMAIN us
                  THEN Min(given, historyLimit) ELSE given
    IN  Slice(SortNewestFirst(mine, "identifiedAt"), capped)

\* mutant: only the records the free plan shows are counted
getUserIdentificationCountVisible(ids, userId) ==
    Min(Len(FilterByUser(ids, userId)), FreeHistory)

getUserIdentificationCount(ids, userId) == Len(FilterByUser(ids, userId))

\* createSighting: the record stored (sightingDate: sighting.sightingDate || now)
NewSighting(id, userId, birdName, sightingDate) ==
    [id |-> id, userId |-> userId, birdName |-> birdName, sightingDate |-> sightingDate]

\* mutant: a free user's explicit limit is taken as it is
getUserSightingsTrustingLimit(us, sights, userId, limit) ==
    LET mine == FilterByUser(sights, userId)
        sorted == SortNewestFirst(mine, "sightingDate")
        maxAllowed == IF us[userId].subscriptionPlan = "premium"
                      THEN Infinity ELSE FreeSightings
        effectiveLimit == IF limit = Undefined THEN maxAllowed ELSE LimitValue(limit)
    IN  Slice(sorted, IF effectiveLimit = Infinity THEN Len(sorted) ELSE effectiveLimit)

\* getUserSightings(userId, limit?) for a user that exists
getUserSightings(us, sights, userId, limit) ==
    LET mine == FilterByUser(sights, userId)
        sorted == SortNewestFirst(mine, "sightingDate")
        maxAllowed == IF us[userId].subscriptionPlan = "premium"
                      THEN Infinity ELSE FreeSightings
        effectiveLimit == IF limit = Undefined THEN maxAllowed
                          ELSE Min(LimitValue(limit), maxAllowed)
    IN  Slice(sorted, IF effectiveLimit = Infinity THEN Len(sorted) ELSE effectiveLimit)

getUserSightingCount(sights, userId) == Len(FilterByUser(sights, userId))

\* getSighting: this.sightings.get(id)
getSighting(sights, id) ==
    IF \E i \in 1..Len(sights) : sights[i].id = id
    THEN sights[CHOOSE i \in 1..Len(sights) : sights[i].id = id]
    ELSE Undefined

\* updateSighting for an id that is in the map: the entry keeps its place
updateSighting(sights, id, updates) ==
    [i \in 1..Len(sights) |->
        IF sights[i].id = id THEN Merge(sights[i], updates) ELSE sights[i]]

\* deleteSighting: this.sightings.delete(id)
deleteSighting(sights, id) == SelectSeq(sights, LAMBDA r : r.id # id)

\* ---- server/gemini.ts: identifyBirdWithGemini ----
JBool(b) == [t |-> "boolean", v |-> b]
JArr(a) == [t |-> "array", v |-> a]
JObj(f) == [t |-> "object", f |-> f]

\* ToBoolean
Truthy(v) ==
    CASE v.t \in {"undefined", "null"} -> FALSE
      [] v.t = "boolean" -> v.v
      [] v.t = "string" -> v.v # ""
      [] v.t = "number" -> v.tenths # 0
      [] OTHER -> TRUE

\* a || d
OrElse(v, d) == IF Truthy(v) THEN v ELSE d

\* property read: o.k (undefined when o is no object or has no such property)
Get(o, k) == IF o.t = "object" /\ k \in DOMAIN o.f THEN o.f[k] ELSE Undefined

IsString(v) == v.t = "string"
IsNumber(v) == v.t = "number"
OptionalString(v) == v.t \in {"string", "undefined"}

\* Math.round of a number in tenths: nearest integer, halves toward +Infinity
MathRound(x) == (x + 5) \div 10

\* mutant: the lower clamp Math.max(1, ...) is left out
ClampNoFloor(c) == Tenths(10 * Min(MathRound(OrElse(c, Tenths(0)).tenths), 100))

\* mutant: one is added to the rounded value before it is clamped
ClampOffByOne(c) ==
    Tenths(10 * Min(Max(1, MathRound(OrElse(c, Tenths(0)).tenths) + 1), 100))

\* Math.min(Math.max(1, Math.round(c || 0)), 100)
ClampConfidence(c) ==
    Tenths(10 * Min(Max(1, MathRound(OrElse(c, Tenths(0)).tenths)), 100))

PhysicalFields == {"size", "weight", "wingspan", "plumage", "bill", "legs", "eyeColor"}
HabitatFields == {"preferredHabitat", "geographicRange", "rangeMapUrl"}
MigrationFields == {"migratory", "migrationSeason", "migrationRoute",
                    "winteringGrounds", "breedingGrounds"}
SeasonalFields == {"breedingPlumage", "winterPlumage", "juvenilePlumage",
                   "seasonalBehavior"}
SoundFields == {"calls", "songs", "audioUrl"}

\* g ? { k: g.k, ... } : undefined   (migratory is !!g.migratory)
CopyGroup(g, fields) ==
    IF Truthy(g)
    THEN JObj([k \in fields |->
                 IF k = "migratory" THEN JBool(Truthy(Get(g, k))) ELSE Get(g, k)])
    ELSE Undefined

DefaultFeatures == JArr(<<JStr("No features available")>>)

NormalizeMainBird(mb) ==
    JObj([name |-> OrElse(Get(mb, "name"), JStr("Unknown Bird")),
          scientificName |-> OrElse(Get(mb, "scientificName"), JStr("Unknown Species")),
          confidence |-> ClampConfidence(Get(mb, "confidence")),
          description |-> OrElse(Get(mb, "description"), JStr("No description available")),
          features |-> OrElse(Get(mb, "features"), DefaultFeatures),
          habitat |-> OrElse(Get(mb, "habitat"), JStr("Unknown habitat")),
          sound |-> OrElse(Get(mb, "sound"), JStr("Unknown sound")),
          physicalCharacteristics |->
              CopyGroup(Get(mb, "physicalCharacteristics"), PhysicalFields),
          habitatAndRange |-> CopyGroup(Get(mb, "habitatAndRange"), HabitatFields),
          migrationPatterns |-> CopyGroup(Get(mb, "migrationPatterns"), MigrationFields),
          seasonalVariations |->
              CopyGroup(Get(mb, "seasonalVariations"), SeasonalFields),
          sounds |-> CopyGroup(Get(mb, "sounds"), SoundFields)])

NormalizeSimilarBird(bird) ==
    JObj([name |-> OrElse(Get(bird, "name"), JStr("Unknown Similar Bird")),
          scientificName |-> OrElse(Get(bird, "scientificName"), JStr("Unknown Species")),
          confidence |-> ClampConfidence(Get(bird, "confidence"))])

\* mutant: without an input array the property is left undefined
SimilarBirdsOrUndefined(sb) ==
    IF sb.t = "array"
    THEN JArr([i \in 1..Len(sb.v) |-> NormalizeSimilarBird(sb.v[i])])
    ELSE Undefined

\* Array.isArray(sb) ? sb.map(...) : []
NormalizeSimilarBirds(sb) ==
    IF sb.t = "array"
    THEN JArr([i \in 1..Len(sb.v) |-> NormalizeSimilarBird(sb.v[i])])
    ELSE JArr(<<>>)

\* isImageIdentification && base64Image ? `data:${mimeType};base64,${base64Image}` : ""
OriginalImage(image) ==
    IF image.t = "string" /\ image.v # ""
    THEN JStr("data:image/jpeg;base64,...") ELSE JStr("")

\* ---- shared/schema.ts: the zod schemas ----
GroupSchemaOk(g) ==
    \/ g.t = "undefined"
    \/ /\ g.t = "object"
       /\ \A k \in DOMAIN g.f :
            IF k = "migratory" THEN g.f[k].t \in {"boolean", "undefined"}
            ELSE OptionalString(g.f[k])

StringArray(v) == v.t = "array" /\ \A i \in 1..Len(v.v) : IsString(v.v[i])

birdSchema(b) ==
    /\ b.t = "object"
    /\ IsString(Get(b, "name"))
    /\ IsString(Get(b, "scientificName"))
    /\ IsNumber(Get(b, "confidence"))
    /\ IsString(Get(b, "description"))
    /\ StringArray(Get(b, "features"))
    /\ OptionalString(Get(b, "habitat"))
    /\ OptionalString(Get(b, "sound"))
    /\ OptionalString(Get(b, "imageUrl"))
    /\ GroupSchemaOk(Get(b, "physicalCharacteristics"))
    /\ GroupSchemaOk(Get(b, "habitatAndRange"))
    /\ GroupSchemaOk(Get(b, "migrationPatterns"))
    /\ GroupSchemaOk(Get(b, "seasonalVariations"))
    /\ GroupSchemaOk(Get(b, "sounds"))

similarBirdSchema(b) ==
    /\ b.t = "object"
    /\ IsString(Get(b, "name"))
    /\ IsString(Get(b, "scientificName"))
    /\ IsNumber(Get(b, "confidence"))
    /\ OptionalString(Get(b, "imageUrl"))

identificationResultSchema(r) ==
    /\ r.t = "object"
    /\ birdSchema(Get(r, "mainBird"))
    /\ LET sb == Get(r, "similarBirds")
       IN  \/ sb.t = "undefined"
           \/ sb.t = "array" /\ \A i \in 1..Len(sb.v) : similarBirdSchema(sb.v[i])
    /\ IsString(Get(r, "originalImage"))

\* ---- identifyBirdWithGemini: the try block of lines 293-374 ----
Thrown(kind, message) == [ok |-> FALSE, kind |-> kind, message |-> message]
Returned(result) == [ok |-> TRUE, result |-> result]

ParseErrorMessage == JStr("Failed to parse identification result from Gemini API")

\* mutant: the error flag is honoured only when no mainBird came with it
ErrorFlaggedUnlessBird(parsed) ==
    Truthy(Get(parsed, "error")) /\ ~Truthy(Get(parsed, "mainBird"))

\* if (parsedResponse.error)
ErrorFlagged(parsed) == Truthy(Get(parsed, "error"))

\* the throw of line 303
ErrorFlagFailure(parsed) ==
    Thrown("IdentificationFailed",
           OrElse(Get(parsed, "message"), JStr("Failed to identify bird in image")))

\* the throw of line 309
MissingMainBirdFailure ==
    Thrown("InvalidResponseShape",
           JStr("The API response did not contain valid bird identification data"))

ValidatedResult(parsed, image) ==
    JObj([mainBird |-> NormalizeMainBird(Get(parsed, "mainBird")),
          similarBirds |-> NormalizeSimilarBirds(Get(parsed, "similarBirds")),
          originalImage |-> OriginalImage(image)])

\* entries of similarBirds that are null or undefined make bird.name throw
SimilarBirdsReadable(sb) ==
    sb.t = "array" => \A i \in 1..Len(sb.v) : sb.v[i].t \notin {"null", "undefined"}

ParseAndValidate(response, image) ==
    IF response.kind = "text"
    THEN Thrown("SyntaxError", JStr("Unexpected token in JSON"))
    ELSE LET parsed == response.parsed IN
         IF parsed.t \in {"null", "undefined"}
         THEN Thrown("TypeError", JStr("Cannot read properties of null"))
         ELSE IF ErrorFlagged(parsed)
         THEN ErrorFlagFailure(parsed)
         ELSE IF ~Truthy(Get(parsed, "mainBird"))
                 \/ ~Truthy(Get(Get(parsed, "mainBird"), "name"))
         THEN MissingMainBirdFailure
         ELSE IF ~SimilarBirdsReadable(Get(parsed, "similarBirds"))
         THEN Thrown("TypeError", JStr("Cannot read properties of null"))
         ELSE LET validatedResult == ValidatedResult(parsed, image) IN
              IF ~identificationResultSchema(validatedResult)
              THEN Thrown("SchemaViolation", JStr("ZodError"))
              ELSE Returned(validatedResult)

\* What the caller of identifyBirdWithGemini gets.  `cause` records which throw
\* of the try block happened; the Error that reaches the caller carries only
\* `message`.
identifyBirdWithGemini(response, image) ==
    IF response.kind = "apiError"
    THEN [ok |-> FALSE, cause |-> "ApiError", message |-> response.message]
    ELSE LET r == ParseAndValidate(response, image) IN
         IF r.ok THEN r
         ELSE [ok |-> FALSE, cause |-> r.kind, message |-> ParseErrorMessage]

\* JSON.parse(JSON.stringify(v)): properties whose value is undefined are dropped
RECURSIVE JsonRoundTrip(_)
JsonRoundTrip(v) ==
    CASE v.t = "object" ->
           JObj([k \in {x \in DOMAIN v.f : v.f[x] # Undefined} |-> JsonRoundTrip(v.f[k])])
      [] v.t = "array" ->
           JArr([i \in 1..Len(v.v) |->
                   IF v.v[i] = Undefined THEN JNull ELSE JsonRoundTrip(v.v[i])])
      [] OTHER -> v

\* ---- inputs ----
SeqsUpTo(S, n) == UNION {[1..k -> S] : k \in 0..n}

JsonResponse(e, m, mb, sb) ==
    [kind |-> "json",
     parsed |-> JObj([error |-> e, message |-> m, mainBird |-> mb, similarBirds |-> sb])]

ErrorFlags == {Undefined, JBool(TRUE), JBool(FALSE)}
Messages == {Undefined, JStr("No bird is visible in the image")}
Names == {Undefined, JStr(""), JStr("Robin"), Tenths(420)}
Confidences == {Undefined, Tenths(-50), Tenths(0), Tenths(10), Tenths(15),
                Tenths(500), Tenths(1000), Tenths(1500)}
FeatureInputs == {Undefined, JArr(<<>>), JArr(<<JStr("Red breast")>>), JStr("Red breast")}
Texts == {Undefined, JStr("text")}
GroupInputs(fields) ==
    {Undefined, JObj([k \in fields |-> JStr("text")]), JObj([k \in fields |-> Tenths(10)])}

BirdObject(n, s, c, d, f, h, so, pc, hr, mp, sv, snd) ==
    JObj([name |-> n, scientificName |-> s, confidence |-> c, description |-> d,
          features |-> f, habitat |-> h, sound |-> so,
          physicalCharacteristics |-> pc, habitatAndRange |-> hr,
          migrationPatterns |-> mp, seasonalVariations |-> sv, sounds |-> snd])

BaseBird ==
    BirdObject(JStr("Robin"), Undefined, Undefined, Undefined, Undefined, Undefined,
               Undefined, Undefined, Undefined, Undefined, Undefined, Undefined)

\* birds that vary the fields the two guards and the clamp read
CoreBirds ==
    {BirdObject(n, Undefined, c, Undefined, f, Undefined, Undefined, Undefined,
                Undefined, Undefined, Undefined, Undefined) :
        n \in Names, c \in Confidences, f \in FeatureInputs}

\* birds that vary the defaulted strings and the optional groups
OptionalBirds ==
    {BirdObject(JStr("Robin"), s, Undefined, d, Undefined, h, so, Undefined,
                Undefined, Undefined, Undefined, Undefined) :
        s \in Texts, d \in Texts, h \in Texts, so \in Texts}
    \cup
    {BirdObject(JStr("Robin"), Undefined, Tenths(500), Undefined, Undefined, Undefined,
                Undefined, pc, hr, mp, sv, snd) :
        pc \in GroupInputs(PhysicalFields), hr \in GroupInputs(HabitatFields),
        mp \in GroupInputs(MigrationFields), sv \in GroupInputs(SeasonalFields),
        snd \in GroupInputs(SoundFields)}

MainBirdInputs == {Undefined, JNull, JStr("Robin")} \cup CoreBirds \cup OptionalBirds

SimilarEntries ==
    {JNull} \cup
    {JObj([name |-> n, scientificName |-> s, confidence |-> c]) :
        n \in {Undefined, JStr("Wren")}, s \in Texts,
        c \in {Undefined, Tenths(-50), Tenths(505), Tenths(1500)}}

SimilarInputs ==
    {Undefined, JNull, JStr("none")} \cup {JArr(l) : l \in SeqsUpTo(SimilarEntries, MaxSimilar)}

Images == {JNull, JStr("/9j/4AAQ")}

Responses ==
    {[kind |-> "text"], [kind |-> "apiError", message |-> JStr("fetch failed")],
     [kind |-> "json", parsed |-> JNull]}
    \cup {JsonResponse(e, m, mb, Undefined) :
            e \in ErrorFlags, m \in Messages, mb \in MainBirdInputs}
    \cup {JsonResponse(e, m, mb, sb) :
            e \in ErrorFlags, m \in Messages, mb \in {Undefined, BaseBird},
            sb \in SimilarInputs}

\* the responses the route actions draw from
RouteResponses ==
    {[kind |-> "apiError", message |-> JStr("fetch failed")],
     JsonResponse(JBool(TRUE), JStr("No bird is visible in the image"), BaseBird, Undefined),
     JsonResponse(Undefined, Undefined, Undefined, Undefined),
     JsonResponse(Undefined, Undefined,
                  BirdObject(Tenths(420), Undefined, Undefined, Undefined, Undefined,
                             Undefined, Undefined, Undefined, Undefined, Undefined,
                             Undefined, Undefined),
                  Undefined),
     JsonResponse(Undefined, Undefined, BaseBird, Undefined)}

StoredResults ==
    {identifyBirdWithGemini(r, JStr("/9j/4AAQ")).result :
        r \in {x \in RouteResponses : identifyBirdWithGemini(x, JStr("/9j/4AAQ")).ok}}

NoInput == [response |-> [kind |-> "none"], image |-> JNull]
NotRun == [ok |-> FALSE, cause |-> "none", message |-> Undefined]

\* ---- client/src/components/AudioRecorder.tsx ----
\* The component as mounted.  Times are in tenths of a second.  timerSees is the
\* isRecording that the stopRecording called by the interval callback reads: the
\* callback is created inside startRecording and keeps the stopRecording, and with
\* it the isRecording, of the render in which startRecording was created.
AudioRecorder(maxDuration) ==
    [maxDuration |-> maxDuration,
     isRecording |-> FALSE,
     recordingTime |-> 0,
     mediaRecorder |-> "none",
     timer |-> FALSE,
     timerSees |-> FALSE,
     pending |-> "none",
     audioUrl |-> FALSE,
     delivered |-> 0,
     stoppedBy |-> "none"]

\* stopRecording as a render created it: isRecording is that render's state
stopRecording(r, isRecording, by) ==
    IF r.mediaRecorder # "none" /\ isRecording
    THEN [r EXCEPT !.mediaRecorder = "inactive", !.pending = "onstop",
                   !.isRecording = FALSE, !.timer = FALSE, !.stoppedBy = by]
    ELSE r

\* ---- the state after construction ----
Init ==
    /\ users = <<>>
    /\ userIdCounter = 1
    /\ identifications = <<>>
    /\ identificationIdCounter = 1
    /\ sightings = <<>>
    /\ sightingIdCounter = 1
    /\ today = 0
    /\ clock = 0
    /\ last = [op |-> "init", userId |-> NullUserId, ok |-> TRUE]
    /\ streak = [u \in OwnerIds |-> 0]
    /\ created = [u \in {NullUserId} \cup OwnerIds |-> 0]
    /\ calls = [c \in CallIds |-> Idle]
    /\ recorder = AudioRecorder(DefaultMaxDuration)
    /\ input = NoInput
    /\ outcome = NotRun

normVars == <<input, outcome, recorder>>

\* the server's variables but the sightings store and the calls in flight
ledgerMaps == <<users, userIdCounter, identifications, identificationIdCounter,
                today, clock, last, streak, created>>

sightingVars == <<sightings, sightingIdCounter>>

\* what the ledger operations and the subscription routes never touch
restVars == <<sightings, sightingIdCounter, clock, calls, input, outcome, recorder>>

\* ---- history bookkeeping (not program state) ----
\* the call before this one was a successful resetDailyIdentificationCount(id)
AfterReset(id) ==
    last.op = "resetDailyIdentificationCount" /\ last.ok /\ last.userId = id

StreakAfterIncrement(id, newDay) ==
    [streak EXCEPT ![id] = IF newDay THEN 1 ELSE IF @ > 0 THEN @ + 1 ELSE 0]

StreakCleared(id) == [streak EXCEPT ![id] = 0]

Failed(op, id) == [op |-> op, userId |-> id, ok |-> FALSE, error |-> NotFound(id)]

\* ---- MemStorage operations ----
CreateUserWithin(maxUsers) ==
    /\ userIdCounter <= maxUsers
    /\ users' = users @@ (userIdCounter :> NewUser(userIdCounter))
    /\ userIdCounter' = userIdCounter + 1
    /\ last' = [op |-> "createUser", userId |-> userIdCounter, ok |-> TRUE]
    /\ UNCHANGED <<identifications, identificationIdCounter, today, streak, created, restVars>>

CreateUser == CreateUserWithin(MaxUsers)

\* createUser in the store specifications
CreateOwner == CreateUserWithin(MaxOwners)

CheckDailyIdentificationLimit(id) ==
    /\ IF id \notin DOMAIN users
       THEN /\ last' = Failed("checkDailyIdentificationLimit", id)
            /\ UNCHANGED <<users, streak>>
       ELSE LET r == checkDailyIdentificationLimit(users, id, today) IN
            /\ users' = r.users
            /\ streak' = IF IsNewDay(users[id], today) THEN StreakCleared(id) ELSE streak
            /\ last' = [op |-> "checkDailyIdentificationLimit", userId |-> id, ok |-> TRUE,
                        isNewDay |-> IsNewDay(users[id], today),
                        prior |-> users[id].dailyIdentificationsCount,
                        afterReset |-> AfterReset(id),
                        ret |-> r.ret]
    /\ UNCHANGED <<userIdCounter, identifications, identificationIdCounter, today, created, restVars>>

IncrementDailyIdentificationCount(id) ==
    /\ IF id \notin DOMAIN users
       THEN /\ last' = Failed("incrementDailyIdentificationCount", id)
            /\ UNCHANGED <<users, streak>>
       ELSE LET r == incrementDailyIdentificationCount(users, id, today) IN
            /\ r.ret <= MaxCount
            /\ users' = r.users
            /\ streak' = StreakAfterIncrement(id, IsNewDay(users[id], today))
            /\ last' = [op |-> "incrementDailyIdentificationCount", userId |-> id,
                        ok |-> TRUE,
                        isNewDay |-> IsNewDay(users[id], today),
                        prior |-> users[id].dailyIdentificationsCount,
                        ret |-> r.ret]
    /\ UNCHANGED <<userIdCounter, identifications, identificationIdCounter, today, created, restVars>>

ResetDailyIdentificationCount(id) ==
    /\ IF id \notin DOMAIN users
       THEN /\ last' = Failed("resetDailyIdentificationCount", id)
            /\ UNCHANGED <<users, streak>>
       ELSE /\ users' = resetDailyIdentificationCount(users, id, today)
            /\ streak' = StreakCleared(id)
            /\ last' = [op |-> "resetDailyIdentificationCount", userId |-> id, ok |-> TRUE]
    /\ UNCHANGED <<userIdCounter, identifications, identificationIdCounter, today, created, restVars>>

\* mutant: the user's counter is incremented twice
createIdentificationCountingTwice(us, ids, idCounter, userId, imageUrl, result, now, ms) ==
    IF userId # NullUserId /\ userId \notin DOMAIN us
    THEN [ok |-> FALSE, users |-> us, identifications |-> ids,
          identificationIdCounter |-> idCounter + 1]
    ELSE LET identification ==
                 [id |-> idCounter, userId |-> userId, imageUrl |-> imageUrl,
                  result |-> result, identifiedAt |-> Instant(now, ms)]
             once == incrementDailyIdentificationCount(us, userId, now).users
         IN  [ok |-> TRUE,
              users |-> IF userId # NullUserId
                        THEN incrementDailyIdentificationCount(once, userId, now).users
                        ELSE us,
              identifications |-> Append(ids, identification),
              identificationIdCounter |-> idCounter + 1,
              ret |-> identification]

\* createIdentification: what it does to the store, and what it returns.
\* The id is taken first; a userId that names no user makes the increment throw.
createIdentification(us, ids, idCounter, userId, imageUrl, result, now, ms) ==
    IF userId # NullUserId /\ userId \notin DOMAIN us
    THEN [ok |-> FALSE, users |-> us, identifications |-> ids,
          identificationIdCounter |-> idCounter + 1]
    ELSE LET identification ==
                 [id |-> idCounter, userId |-> userId, imageUrl |-> imageUrl,
                  result |-> result, identifiedAt |-> Instant(now, ms)]
         IN  [ok |-> TRUE,
              users |-> IF userId # NullUserId
                        THEN incrementDailyIdentificationCount(us, userId, now).users
                        ELSE us,
              identifications |-> Append(ids, identification),
              identificationIdCounter |-> idCounter + 1,
              ret |-> identification]

CreateIdentificationWithin(userId, result, maxIdent, maxCount) ==
    /\ identificationIdCounter <= maxIdent
    /\ LET r == createIdentification(users, identifications, identificationIdCounter,
                                     userId, "data:image", result, today, clock)
       IN  /\ r.ok /\ userId # NullUserId =>
                  r.users[userId].dailyIdentificationsCount <= maxCount
           /\ users' = r.users
           /\ identifications' = r.identifications
           /\ identificationIdCounter' = r.identificationIdCounter
           /\ created' = IF r.ok THEN [created EXCEPT ![userId] = @ + 1] ELSE created
           /\ streak' = IF r.ok /\ userId # NullUserId
                        THEN StreakAfterIncrement(userId, IsNewDay(users[userId], today))
                        ELSE streak
           /\ last' = IF r.ok
                      THEN [op |-> "createIdentification", userId |-> userId, ok |-> TRUE,
                            prior |-> IF userId # NullUserId
                                      THEN users[userId].dailyIdentificationsCount ELSE 0,
                            isNewDay |-> IF userId # NullUserId
                                         THEN IsNewDay(users[userId], today) ELSE FALSE,
                            ret |-> r.ret]
                      ELSE Failed("createIdentification", userId)
    /\ UNCHANGED <<userIdCounter, today, restVars>>

CreateIdentification(userId, result) ==
    CreateIdentificationWithin(userId, result, MaxIdent, MaxCount)

UpdateUserSubscription(id, plan) ==
    /\ IF id \notin DOMAIN users
       THEN /\ last' = Failed("updateUserSubscription", id)
            /\ UNCHANGED users
       ELSE /\ users' = updateUserSubscription(users, id, plan,
                            IF plan = "premium" THEN JDate(today + SubscriptionDays)
                            ELSE Undefined)
            /\ last' = [op |-> "updateUserSubscription", userId |-> id, ok |-> TRUE]
    /\ UNCHANGED <<userIdCounter, identifications, identificationIdCounter, today,
                   streak, created, restVars>>

UpdateUserStripeInfo(id) ==
    /\ IF id \notin DOMAIN users
       THEN /\ last' = Failed("updateUserStripeInfo", id)
            /\ UNCHANGED users
       ELSE /\ users' = updateUserStripeInfo(users, id, JStr("cus_1"), JStr("sub_1"))
            /\ last' = [op |-> "updateUserStripeInfo", userId |-> id, ok |-> TRUE]
    /\ UNCHANGED <<userIdCounter, identifications, identificationIdCounter, today,
                   streak, created, restVars>>

\* the clock: midnight passes
AdvanceDay ==
    /\ today < MaxDay
    /\ today' = today + 1
    /\ streak' = [u \in OwnerIds |-> 0]
    /\ last' = [op |-> "midnight", userId |-> NullUserId, ok |-> TRUE]
    /\ UNCHANGED <<users, userIdCounter, identifications, identificationIdCounter, created, restVars>>

\* the clock: a millisecond passes
Tick ==
    /\ clock < MaxClock
    /\ clock' = clock + 1
    /\ last' = [op |-> "tick", userId |-> NullUserId, ok |-> TRUE]
    /\ UNCHANGED <<users, userIdCounter, identifications, identificationIdCounter,
                   sightingVars, today, streak, created, calls, normVars>>

OwnedIdentifications(userId) == {r \in Range(identifications) : r.userId = userId}
OwnedSightings(userId) == {r \in Range(sightings) : r.userId = userId}

\* getRecentIdentifications(userId, limit)
GetRecentIdentifications(userId, limit) ==
    /\ last' = [op |-> "getRecentIdentifications", userId |-> userId, ok |-> TRUE,
                limit |-> limit,
                ret |-> getRecentIdentifications(users, identifications, TRUE, userId, limit)]
    /\ UNCHANGED <<users, userIdCounter, identifications, identificationIdCounter,
                   today, streak, created, restVars>>

\* getRecentIdentifications(undefined, limit)
GetAllRecentIdentifications(limit) ==
    /\ last' = [op |-> "getRecentIdentifications()", userId |-> NullUserId, ok |-> TRUE,
                limit |-> limit,
                ret |-> getRecentIdentifications(users, identifications, FALSE,
                                                 NullUserId, limit)]
    /\ UNCHANGED <<users, userIdCounter, identifications, identificationIdCounter,
                   today, streak, created, restVars>>

\* getUserIdentificationCount(userId)
GetUserIdentificationCount(userId) ==
    /\ last' = [op |-> "getUserIdentificationCount", userId |-> userId, ok |-> TRUE,
                ret |-> getUserIdentificationCount(identifications, userId)]
    /\ UNCHANGED <<users, userIdCounter, identifications, identificationIdCounter,
                   today, streak, created, restVars>>

\* getUserSightings(userId, limit)
GetUserSightings(userId, limit) ==
    /\ last' = IF userId \notin DOMAIN users
               THEN Failed("getUserSightings", userId)
               ELSE [op |-> "getUserSightings", userId |-> userId, ok |-> TRUE,
                     limit |-> limit,
                     ret |-> getUserSightings(users, sightings, userId, limit)]
    /\ UNCHANGED <<users, userIdCounter, identifications, identificationIdCounter,
                   today, streak, created, restVars>>

\* ---- MemStorage calls that overlap ----
\* An async method runs to its first await and goes on in a later turn of the event
\* loop; other calls run in between.  getUser reads the map when it is called, so
\* what a method holds after `await this.getUser(userId)` is the user as it was.
Awaiting(op, userId, c) == [op |-> "await", of |-> op, userId |-> userId, ok |-> TRUE, call |-> c]

\* checkDailyIdentificationLimit(id), up to `await this.getUser(userId)`
BeginCheckDailyIdentificationLimit(c, id) ==
    /\ calls[c].pc = "idle"
    /\ calls' = [calls EXCEPT ![c] = [pc |-> "checkDailyIdentificationLimit",
                                      userId |-> id, user |-> getUser(users, id)]]
    /\ last' = Awaiting("checkDailyIdentificationLimit", id, c)
    /\ UNCHANGED <<users, userIdCounter, identifications, identificationIdCounter,
                   sightingVars, today, clock, streak, created, normVars>>

\* checkDailyIdentificationLimit, from the await to the return
ResumeCheckDailyIdentificationLimit(c) ==
    /\ calls[c].pc = "checkDailyIdentificationLimit"
    /\ LET id == calls[c].userId
           user == calls[c].user
       IN  IF user = Undefined
           THEN /\ last' = Failed("checkDailyIdentificationLimit", id)
                /\ calls' = [calls EXCEPT ![c] = [pc |-> "failed", userId |-> id]]
                /\ UNCHANGED <<users, streak>>
           ELSE LET r == checkAfterGetUser(users, user, id, today) IN
                /\ users' = r.users
                /\ streak' = IF IsNewDay(user, today) THEN StreakCleared(id) ELSE streak
                /\ calls' = [calls EXCEPT ![c] = [pc |-> "checked", userId |-> id,
                                                  ret |-> r.ret, day |-> today]]
                /\ last' = [op |-> "checkDailyIdentificationLimit", userId |-> id,
                            ok |-> TRUE, call |-> c,
                            isNewDay |-> IsNewDay(users[id], today),
                            prior |-> users[id].dailyIdentificationsCount,
                            afterReset |-> FALSE,
                            ret |-> r.ret]
    /\ UNCHANGED <<userIdCounter, identifications, identificationIdCounter,
                   sightingVars, today, clock, created, normVars>>

\* incrementDailyIdentificationCount(id), up to `await this.getUser(userId)`: the
\* call of a request that has made no check, or of one whose check said yes
BeginIncrementDailyIdentificationCount(c, id) ==
    /\ \/ calls[c].pc = "idle"
       \/ calls[c].pc = "checked" /\ calls[c].userId = id /\ calls[c].ret.withinLimit
    /\ calls' = [calls EXCEPT ![c] = [pc |-> "incrementDailyIdentificationCount",
                                      userId |-> id, user |-> getUser(users, id),
                                      checked |-> calls[c].pc = "checked"]]
    /\ last' = Awaiting("incrementDailyIdentificationCount", id, c)
    /\ UNCHANGED <<users, userIdCounter, identifications, identificationIdCounter,
                   sightingVars, today, clock, streak, created, normVars>>

\* incrementDailyIdentificationCount, from the await to the return
ResumeIncrementDailyIdentificationCount(c) ==
    /\ calls[c].pc = "incrementDailyIdentificationCount"
    /\ LET id == calls[c].userId
           user == calls[c].user
       IN  IF user = Undefined
           THEN /\ last' = Failed("incrementDailyIdentificationCount", id)
                /\ calls' = [calls EXCEPT ![c] = [pc |-> "failed", userId |-> id]]
                /\ UNCHANGED <<users, streak>>
           ELSE LET r == incrementAfterGetUser(users, user, id, today) IN
                /\ r.ret <= MaxCount
                /\ users' = r.users
                /\ streak' = StreakAfterIncrement(id, IsNewDay(users[id], today))
                /\ calls' = [calls EXCEPT ![c] = [pc |-> "done", userId |-> id,
                                                  ret |-> r.ret,
                                                  checked |-> calls[c].checked]]
                /\ last' = [op |-> "incrementDailyIdentificationCount", userId |-> id,
                            ok |-> TRUE, call |-> c,
                            isNewDay |-> IsNewDay(users[id], today),
                            prior |-> users[id].dailyIdentificationsCount,
                            ret |-> r.ret]
    /\ UNCHANGED <<userIdCounter, identifications, identificationIdCounter,
                   sightingVars, today, clock, created, normVars>>

\* ---- AudioRecorder: the user, the timer and the browser's events ----
\* the Start Recording button (rendered when !isRecording && !audioUrl), with
\* microphone access granted
StartRecording ==
    /\ ~recorder.isRecording /\ ~recorder.audioUrl /\ recorder.mediaRecorder = "none"
    /\ recorder' = [recorder EXCEPT !.recordingTime = 0,
                                    !.mediaRecorder = "recording",
                                    !.isRecording = TRUE,
                                    !.timer = TRUE,
                                    !.timerSees = recorder.isRecording]
    /\ UNCHANGED <<ledgerMaps, sightingVars, calls, input, outcome>>

\* the setInterval callback, every 100 ms.  The code adds 0.1 in floating point, so
\* its sum first reaches 15 at the 151st tick, not the 150th; the tick at which the
\* threshold is met is counted exactly here, what the callback then does is the same.
RecordingTimer ==
    /\ recorder.timer
    /\ LET newTime == recorder.recordingTime + 1 IN
       recorder' = IF newTime >= recorder.maxDuration
                   THEN [stopRecording(recorder, recorder.timerSees, "timer")
                            EXCEPT !.recordingTime = recorder.maxDuration]
                   ELSE [recorder EXCEPT !.recordingTime = newTime]
    /\ UNCHANGED <<ledgerMaps, sightingVars, calls, input, outcome>>

\* the Stop Recording button (rendered when isRecording): the current render's
\* stopRecording
ClickStopRecording ==
    /\ recorder.isRecording
    /\ recorder' = stopRecording(recorder, recorder.isRecording, "user")
    /\ UNCHANGED <<ledgerMaps, sightingVars, calls, input, outcome>>

\* mediaRecorder.onstop: the blob and its URL are set, the FileReader is started
MediaRecorderOnStop ==
    /\ recorder.pending = "onstop"
    /\ recorder' = [recorder EXCEPT !.audioUrl = TRUE, !.pending = "onloadend"]
    /\ UNCHANGED <<ledgerMaps, sightingVars, calls, input, outcome>>

\* reader.onloadend: onAudioCaptured(base64Audio)
ReaderOnLoadEnd ==
    /\ recorder.pending = "onloadend"
    /\ recorder' = [recorder EXCEPT !.delivered = @ + 1, !.pending = "none"]
    /\ UNCHANGED <<ledgerMaps, sightingVars, calls, input, outcome>>

\* ---- server/routes.ts ----
Response(op, userId, status, body) ==
    [op |-> op, userId |-> userId, ok |-> status < 400, status |-> status, body |-> body]

\* the authenticate middleware: the status it answers with, 0 when it calls next()
authenticate(us, userId) ==
    IF userId = NullUserId THEN 401
    ELSE IF userId \notin DOMAIN us THEN 401
    ELSE 0

\* res.json of a SubscriptionLimits object
LimitsJson(limits) ==
    [identifications |-> [perDay |-> JsonNumber(limits.identifications.perDay),
                          history |-> JsonNumber(limits.identifications.history)],
     sightings |-> [total |-> JsonNumber(limits.sightings.total)]]

\* x === Infinity ? -1 : x
MarkUnbounded(x) == IF x = Infinity THEN UnboundedMarker ELSE x

\* GET /api/subscription/plans: the limits are converted before res.json
PlanLimitsBody(planId) ==
    LET limits == subscriptionLimitsMap[planId] IN
    LimitsJson([identifications |->
                    [perDay |-> MarkUnbounded(limits.identifications.perDay),
                     history |-> MarkUnbounded(limits.identifications.history)],
                sightings |-> [total |-> MarkUnbounded(limits.sightings.total)]])

\* GET /api/subscription and POST /api/subscription/update: the map entry as it is
UserLimitsBody(plan) == LimitsJson(subscriptionLimitsMap[plan])

\* res.json of a DailyLimitCheckResult
DailyLimitBody(ret) ==
    [withinLimit |-> ret.withinLimit,
     current |-> JsonNumber(ret.current),
     limit |-> JsonNumber(ret.limit)]

GetDailyLimit(userId) ==
    /\ IF authenticate(users, userId) # 0
       THEN /\ last' = Response("GET /api/subscription/daily-limit", userId, 401, <<>>)
            /\ UNCHANGED <<users, streak>>
       ELSE LET r == checkDailyIdentificationLimit(users, userId, today) IN
            /\ users' = r.users
            /\ streak' = IF IsNewDay(users[userId], today)
                         THEN StreakCleared(userId) ELSE streak
            /\ last' = Response("GET /api/subscription/daily-limit", userId, 200,
                                DailyLimitBody(r.ret))
    /\ UNCHANGED <<userIdCounter, identifications, identificationIdCounter, today, created, restVars>>

GetPlans ==
    /\ last' = Response("GET /api/subscription/plans", NullUserId, 200,
                        <<[id |-> "free", limits |-> PlanLimitsBody("free")],
                          [id |-> "premium", limits |-> PlanLimitsBody("premium")]>>)
    /\ UNCHANGED <<users, userIdCounter, identifications, identificationIdCounter,
                   today, streak, created, restVars>>

GetSubscription(userId) ==
    /\ last' = IF authenticate(users, userId) # 0
               THEN Response("GET /api/subscription", userId, 401, <<>>)
               ELSE Response("GET /api/subscription", userId, 200,
                             [plan |-> users[userId].subscriptionPlan,
                              endDate |-> users[userId].subscriptionEndDate,
                              limits |-> UserLimitsBody(users[userId].subscriptionPlan)])
    /\ UNCHANGED <<users, userIdCounter, identifications, identificationIdCounter,
                   today, streak, created, restVars>>

PostSubscriptionUpdate(userId, plan) ==
    /\ IF authenticate(users, userId) # 0
       THEN /\ last' = Response("POST /api/subscription/update", userId, 401, <<>>)
            /\ UNCHANGED users
       ELSE IF plan \notin Plans
       THEN /\ last' = Response("POST /api/subscription/update", userId, 400, <<>>)
            /\ UNCHANGED users
       ELSE LET endDate == IF plan = "premium" THEN JDate(today + SubscriptionDays)
                           ELSE Undefined
                us == updateUserSubscription(users, userId, plan, endDate)
            IN  /\ users' = us
                /\ last' = Response("POST /api/subscription/update", userId, 200,
                                    [plan |-> us[userId].subscriptionPlan,
                                     endDate |-> us[userId].subscriptionEndDate,
                                     limits |-> UserLimitsBody(us[userId].subscriptionPlan)])
    /\ UNCHANGED <<userIdCounter, identifications, identificationIdCounter, today,
                   streak, created, restVars>>

\* mutant: the record is stored before the outcome of the identification is looked at
StoreThenIdentify(op, imageUrl, response, image) ==
    LET result == identifyBirdWithGemini(response, image)
        r == createIdentification(users, identifications, identificationIdCounter,
                                  NullUserId, imageUrl,
                                  IF result.ok THEN result.result ELSE JNull, today, clock)
    IN  /\ users' = r.users
        /\ identifications' = r.identifications
        /\ identificationIdCounter' = r.identificationIdCounter
        /\ created' = [created EXCEPT ![NullUserId] = @ + 1]
        /\ last' = IF result.ok
                   THEN Response(op, NullUserId, 200, result.result)
                   ELSE Response(op, NullUserId, 500,
                                 [message |-> "Failed to identify bird",
                                  error |-> OrElse(result.message,
                                      JStr("Unknown error occurred during identification"))])

\* POST /api/identify and POST /api/upload after the request is validated:
\* identify, store the result for the anonymous user, answer.
IdentifyAndStore(op, imageUrl, response, image) ==
    LET result == identifyBirdWithGemini(response, image) IN
    IF result.ok
    THEN LET r == createIdentification(users, identifications, identificationIdCounter,
                                       NullUserId, imageUrl, result.result, today, clock)
         IN  /\ users' = r.users
             /\ identifications' = r.identifications
             /\ identificationIdCounter' = r.identificationIdCounter
             /\ created' = [created EXCEPT ![NullUserId] = @ + 1]
             /\ last' = Response(op, NullUserId, 200, result.result)
    ELSE /\ last' = Response(op, NullUserId, 500,
                             [message |-> "Failed to identify bird",
                              error |-> OrElse(result.message,
                                  JStr("Unknown error occurred during identification"))])
         /\ UNCHANGED <<users, identifications, identificationIdCounter, created>>

PostIdentify(image, response) ==
    /\ identificationIdCounter <= MaxIdent
    /\ IF ~Truthy(image)
       THEN /\ last' = Response("POST /api/identify", NullUserId, 400, <<>>)
            /\ UNCHANGED <<users, identifications, identificationIdCounter, created>>
       ELSE IdentifyAndStore("POST /api/identify", "data:image/jpeg;base64,...",
                             response, image)
    /\ UNCHANGED <<userIdCounter, today, streak, restVars>>

PostUpload(file, response) ==
    /\ identificationIdCounter <= MaxIdent
    /\ IF file.t = "undefined"
       THEN /\ last' = Response("POST /api/upload", NullUserId, 400, <<>>)
            /\ UNCHANGED <<users, identifications, identificationIdCounter, created>>
       ELSE IdentifyAndStore("POST /api/upload", "data:image/png;base64,...",
                             response, file)
    /\ UNCHANGED <<userIdCounter, today, streak, restVars>>

\* GET /api/identifications?userId=...
GetIdentifications(userId) ==
    /\ last' = Response("GET /api/identifications", userId, 200,
                        getRecentIdentifications(users, identifications, userId # NullUserId,
                                                 userId, Undefined))
    /\ UNCHANGED <<users, userIdCounter, identifications, identificationIdCounter,
                   today, streak, created, restVars>>

\* mutant: the cap is reached only when it is exceeded
SightingLimitExceeded(sightingCount, sightingLimit) ==
    sightingLimit # Infinity /\ sightingCount > sightingLimit

\* sightingLimit !== Infinity && sightingCount >= sightingLimit
SightingLimitReached(sightingCount, sightingLimit) ==
    sightingLimit # Infinity /\ sightingCount >= sightingLimit

\* z.object({ birdName: z.string().min(1), ... }).parse(req.body)
SightingDataOk(body) ==
    /\ IsString(Get(body, "birdName")) /\ Get(body, "birdName").v # ""
    /\ OptionalString(Get(body, "notes"))

\* POST /api/sightings.  maxIds and maxForeign bound what the store may grow to:
\* ids handed out, and sightings of accounts other than the first.
PostSighting(userId, body, maxIds, maxForeign) ==
    /\ IF authenticate(users, userId) # 0
       THEN /\ last' = Response("POST /api/sightings", userId, 401, <<>>)
            /\ UNCHANGED sightingVars
       ELSE LET sightingCount == getUserSightingCount(sightings, userId)
                sightingLimit ==
                    subscriptionLimitsMap[users[userId].subscriptionPlan].sightings.total
            IN  IF SightingLimitReached(sightingCount, sightingLimit)
                THEN /\ last' = Response("POST /api/sightings", userId, 403,
                                         [message |-> "Sighting limit reached",
                                          sightingCount |-> JsonNumber(sightingCount),
                                          sightingLimit |-> JsonNumber(sightingLimit),
                                          upgradeRequired |-> TRUE])
                     /\ UNCHANGED sightingVars
                ELSE IF ~SightingDataOk(body)
                THEN /\ last' = Response("POST /api/sightings", userId, 400, <<>>)
                     /\ UNCHANGED sightingVars
                ELSE LET sighting == NewSighting(sightingIdCounter, userId,
                                                 Get(body, "birdName"),
                                                 Instant(today, clock))
                     IN  /\ sightingIdCounter <= maxIds
                         /\ userId # 1 => sightingCount < maxForeign
                         /\ sightings' = Append(sightings, sighting)
                         /\ sightingIdCounter' = sightingIdCounter + 1
                         /\ last' = Response("POST /api/sightings", userId, 201, sighting)
    /\ UNCHANGED <<users, userIdCounter, identifications, identificationIdCounter,
                   today, clock, streak, created, calls, normVars>>

\* POST /api/sightings when requests overlap, in the three pieces its awaits cut it
\* into.  First the authenticate middleware up to `await storage.getUser(...)`.
PostSightingAuthenticate(c, userId, body) ==
    /\ calls[c].pc = "idle"
    /\ IF userId = NullUserId
       THEN /\ last' = Response("POST /api/sightings", userId, 401, <<>>)
            /\ calls' = [calls EXCEPT ![c] = [pc |-> "done", userId |-> userId]]
       ELSE /\ last' = Awaiting("POST /api/sightings", userId, c)
            /\ calls' = [calls EXCEPT ![c] = [pc |-> "authenticate", userId |-> userId,
                                              user |-> getUser(users, userId),
                                              body |-> body]]
    /\ UNCHANGED <<users, userIdCounter, identifications, identificationIdCounter,
                   sightingVars, today, clock, streak, created, normVars>>

\* the middleware goes on to the handler, up to `await storage.getUserSightingCount(...)`
PostSightingCount(c) ==
    /\ calls[c].pc = "authenticate"
    /\ IF calls[c].user = Undefined
       THEN /\ last' = Response("POST /api/sightings", calls[c].userId, 401, <<>>)
            /\ calls' = [calls EXCEPT ![c] = [pc |-> "done", userId |-> calls[c].userId]]
       ELSE /\ last' = Awaiting("POST /api/sightings", calls[c].userId, c)
            /\ calls' = [calls EXCEPT ![c] =
                   [pc |-> "getUserSightingCount", userId |-> calls[c].userId,
                    user |-> calls[c].user, body |-> calls[c].body,
                    sightingCount |-> getUserSightingCount(sightings, calls[c].user.id)]]
    /\ UNCHANGED <<users, userIdCounter, identifications, identificationIdCounter,
                   sightingVars, today, clock, streak, created, normVars>>

\* the handler from the limit check to the answer; maxIds bounds the ids handed out
PostSightingCreate(c, maxIds) ==
    /\ calls[c].pc = "getUserSightingCount"
    /\ LET user == calls[c].user
           sightingCount == calls[c].sightingCount
           sightingLimit == subscriptionLimitsMap[user.subscriptionPlan].sightings.total
       IN  IF SightingLimitReached(sightingCount, sightingLimit)
           THEN /\ last' = Response("POST /api/sightings", user.id, 403,
                                    [message |-> "Sighting limit reached",
                                     sightingCount |-> JsonNumber(sightingCount),
                                     sightingLimit |-> JsonNumber(sightingLimit),
                                     upgradeRequired |-> TRUE])
                /\ UNCHANGED sightingVars
           ELSE IF ~SightingDataOk(calls[c].body)
           THEN /\ last' = Response("POST /api/sightings", user.id, 400, <<>>)
                /\ UNCHANGED sightingVars
           ELSE LET sighting == NewSighting(sightingIdCounter, user.id,
                                            Get(calls[c].body, "birdName"),
                                            Instant(today, clock))
                IN  /\ sightingIdCounter <= maxIds
                    /\ sightings' = Append(sightings, sighting)
                    /\ sightingIdCounter' = sightingIdCounter + 1
                    /\ last' = Response("POST /api/sightings", user.id, 201, sighting)
    /\ calls' = [calls EXCEPT ![c] = [pc |-> "done", userId |-> calls[c].userId]]
    /\ UNCHANGED <<users, userIdCounter, identifications, identificationIdCounter,
                   today, clock, streak, created, normVars>>

\* the request about one sighting, as the last thing that happened
SightingResponse(op, userId, sightingId, status, body) ==
    Response(op, userId, status, body) @@ [sightingId |-> sightingId]

\* mutant: every authenticated user passes for the owner
SightingOfAnyUser(sighting, userId) == userId = userId

\* sighting.userId !== user.id, negated
SightingOfUser(sighting, userId) == sighting.userId = userId

\* what GET, PUT and DELETE /api/sightings/:id answer before they act: 401, 404,
\* 403, or 0 when the sighting is there and is the user's
SightingAccess(userId, sightingId) ==
    IF authenticate(users, userId) # 0 THEN 401
    ELSE IF getSighting(sightings, sightingId) = Undefined THEN 404
    ELSE IF ~SightingOfUser(getSighting(sightings, sightingId), userId) THEN 403
    ELSE 0

\* GET /api/sightings/:id
GetSighting(userId, sightingId) ==
    /\ last' = IF SightingAccess(userId, sightingId) # 0
               THEN SightingResponse("GET /api/sightings/:id", userId, sightingId,
                                     SightingAccess(userId, sightingId), <<>>)
               ELSE SightingResponse("GET /api/sightings/:id", userId, sightingId, 200,
                                     getSighting(sightings, sightingId))
    /\ UNCHANGED <<users, userIdCounter, identifications, identificationIdCounter,
                   today, streak, created, restVars>>

\* the keys of the PUT body's zod object that the model's records have
UpdateKeys == {"birdName", "sightingDate"}

\* z.object({ birdName: z.string().min(1).optional(), ...,
\*            sightingDate: z.date().optional(), ... }).parse(req.body)
UpdateDataOk(body) ==
    /\ Get(body, "birdName") # Undefined
           => IsString(Get(body, "birdName")) /\ Get(body, "birdName").v # ""
    /\ Get(body, "sightingDate") # Undefined => Get(body, "sightingDate").t = "date"

\* what parse returns: the keys of the schema that the body has, no others
UpdateData(body) == [k \in DOMAIN body.f \cap UpdateKeys |-> body.f[k]]

\* PUT /api/sightings/:id
PutSighting(userId, sightingId, body) ==
    /\ IF SightingAccess(userId, sightingId) # 0
       THEN /\ last' = SightingResponse("PUT /api/sightings/:id", userId, sightingId,
                                        SightingAccess(userId, sightingId), <<>>)
            /\ UNCHANGED sightings
       ELSE IF ~UpdateDataOk(body)
       THEN /\ last' = SightingResponse("PUT /api/sightings/:id", userId, sightingId,
                                        400, <<>>)
            /\ UNCHANGED sightings
       ELSE LET updated == updateSighting(sightings, sightingId, UpdateData(body))
            IN  /\ sightings' = updated
                /\ last' = SightingResponse("PUT /api/sightings/:id", userId, sightingId,
                                            200, getSighting(updated, sightingId))
    /\ UNCHANGED <<users, userIdCounter, identifications, identificationIdCounter,
                   sightingIdCounter, today, clock, streak, created, calls, normVars>>

\* DELETE /api/sightings/:id
DeleteSighting(userId, sightingId) ==
    /\ IF SightingAccess(userId, sightingId) # 0
       THEN /\ last' = SightingResponse("DELETE /api/sightings/:id", userId, sightingId,
                                        SightingAccess(userId, sightingId), <<>>)
            /\ UNCHANGED sightings
       ELSE /\ sightings' = deleteSighting(sightings, sightingId)
            /\ last' = SightingResponse("DELETE /api/sightings/:id", userId, sightingId,
                                        204, <<>>)
    /\ UNCHANGED <<users, userIdCounter, identifications, identificationIdCounter,
                   sightingIdCounter, today, clock, streak, created, calls, normVars>>

\* GET /api/sightings
GetSightings(userId) ==
    /\ last' = IF authenticate(users, userId) # 0
               THEN Response("GET /api/sightings", userId, 401, <<>>)
               ELSE Response("GET /api/sightings", userId, 200,
                             getUserSightings(users, sightings, userId, Undefined))
    /\ UNCHANGED <<users, userIdCounter, identifications, identificationIdCounter,
                   today, streak, created, restVars>>

\* ---- specifications ----
LedgerNext ==
    \/ CreateUser
    \/ \E id \in UserIds : CheckDailyIdentificationLimit(id)
    \/ \E id \in UserIds : IncrementDailyIdentificationCount(id)
    \/ \E id \in UserIds : ResetDailyIdentificationCount(id)
    \/ \E id \in UserIds, plan \in Plans : UpdateUserSubscription(id, plan)
    \/ AdvanceDay

RouteNext ==
    \/ \E userId \in {NullUserId} \cup UserIds : GetDailyLimit(userId)
    \/ GetPlans
    \/ \E userId \in {NullUserId} \cup UserIds : GetSubscription(userId)
    \/ \E userId \in {NullUserId} \cup UserIds, plan \in Plans \cup {"gold"} :
          PostSubscriptionUpdate(userId, plan)
    \/ \E image \in {JStr(""), JStr("/9j/4AAQ")}, response \in RouteResponses :
          PostIdentify(image, response)
    \/ \E file \in {Undefined, JStr("iVBORw0KGgo")}, response \in RouteResponses :
          PostUpload(file, response)

\* the read-only queries of MemStorage and the route that lists identifications
QueryNext ==
    \/ \E userId \in UserIds : GetRecentIdentifications(userId, Undefined)
    \/ \E userId \in UserIds : GetUserSightings(userId, Undefined)
    \/ \E userId \in {NullUserId} \cup UserIds : GetIdentifications(userId)

Next ==
    \/ LedgerNext
    \/ \E userId \in {NullUserId} \cup UserIds, result \in StoredResults :
          CreateIdentification(userId, result)
    \/ RouteNext
    \/ QueryNext

\* the ledger, the identification store and the routes over them
Spec == Init /\ [][Next]_vars

\* the usage-limit methods of MemStorage alone
LedgerSpec == Init /\ [][LedgerNext]_vars

\* ---- the two identification routes over a ledger in use ----
IdentifyNext ==
    \/ CreateUser
    \/ \E id \in UserIds : IncrementDailyIdentificationCount(id)
    \/ \E image \in {JStr(""), JStr("/9j/4AAQ")}, response \in RouteResponses :
          PostIdentify(image, response)
    \/ \E file \in {Undefined, JStr("iVBORw0KGgo")}, response \in RouteResponses :
          PostUpload(file, response)

IdentifySpec == Init /\ [][IdentifyNext]_vars

\* ---- createIdentification among several accounts ----
OwnerNext ==
    \/ CreateOwner
    \/ \E id \in OwnerIds : IncrementDailyIdentificationCount(id)
    \/ \E userId \in {NullUserId} \cup OwnerIds, result \in StoredResults :
          CreateIdentification(userId, result)
    \/ AdvanceDay

OwnerSpec == Init /\ [][OwnerNext]_vars

\* ---- the identification history ----
HistoryLimits == {Undefined, JNum(2), JNum(MaxStored)}

\* a user and anonymous visitors, a handful of identifications
HistoryNext ==
    \/ CreateUser
    \/ \E id \in UserIds, plan \in Plans : UpdateUserSubscription(id, plan)
    \/ Tick
    \/ \E userId \in {NullUserId} \cup UserIds, result \in StoredResults :
          CreateIdentificationWithin(userId, result, MaxHistory, MaxHistory)
    \/ \E userId \in UserIds, limit \in HistoryLimits :
          GetRecentIdentifications(userId, limit)
    \/ \E limit \in HistoryLimits : GetAllRecentIdentifications(limit)
    \/ \E userId \in {NullUserId} \cup UserIds : GetIdentifications(userId)

HistorySpec == Init /\ [][HistoryNext]_vars

\* users with a long history: more identifications than any plan's history limit
ArchiveNext ==
    \/ CreateUser
    \/ \E id \in UserIds, plan \in Plans : UpdateUserSubscription(id, plan)
    \/ Tick
    \/ \E userId \in DOMAIN users, result \in StoredResults :
          CreateIdentificationWithin(userId, result, MaxStored, MaxStored)
    \/ \E userId \in UserIds, limit \in HistoryLimits :
          GetRecentIdentifications(userId, limit)

ArchiveSpec == Init /\ [][ArchiveNext]_vars

\* what reads the history or changes what it shows, over a growing history
RetentionNext ==
    \/ CreateUser
    \/ \E id \in UserIds, plan \in Plans : UpdateUserSubscription(id, plan)
    \/ \E id \in UserIds : CheckDailyIdentificationLimit(id)
    \/ \E userId \in {NullUserId} \cup UserIds, result \in StoredResults :
          CreateIdentificationWithin(userId, result, MaxHistory, MaxHistory)
    \/ \E userId \in UserIds, limit \in HistoryLimits :
          GetRecentIdentifications(userId, limit)
    \/ \E userId \in UserIds : GetUserIdentificationCount(userId)

RetentionSpec == Init /\ [][RetentionNext]_vars

\* ---- the usage-limit methods when calls overlap ----
\* The calls of LedgerSpec run in one piece between the pieces of the overlapping ones.
OverlapNext ==
    \/ CreateUser
    \/ \E id \in UserIds : IncrementDailyIdentificationCount(id)
    \/ AdvanceDay
    \/ \E c \in CallIds, id \in UserIds : BeginCheckDailyIdentificationLimit(c, id)
    \/ \E c \in CallIds : ResumeCheckDailyIdentificationLimit(c)
    \/ \E c \in CallIds, id \in UserIds : BeginIncrementDailyIdentificationCount(c, id)
    \/ \E c \in CallIds : ResumeIncrementDailyIdentificationCount(c)

OverlapSpec == Init /\ [][OverlapNext]_vars

\* ---- the sightings store and its routes ----
SightingBody == JObj([birdName |-> JStr("Robin"), notes |-> JStr("by the pond")])

SightingBodies == {SightingBody, JObj([birdName |-> JStr("")])}

SightingLimits == {Undefined, JNum(2), JNum(MaxSightings + 1)}

SightingNext ==
    \/ CreateOwner
    \/ \E id \in UserIds, plan \in Plans : UpdateUserSubscription(id, plan)
    \/ Tick
    \/ \E userId \in {NullUserId} \cup OwnerIds, body \in SightingBodies :
          PostSighting(userId, body, MaxSightings + MaxForeign, MaxForeign)
    \/ \E userId \in OwnerIds, limit \in SightingLimits : GetUserSightings(userId, limit)
    \/ \E userId \in {NullUserId} \cup OwnerIds : GetSightings(userId)

SightingSpec == Init /\ [][SightingNext]_vars

\* the requests about one sighting, among two accounts
UpdateBodies ==
    {JObj([birdName |-> JStr("Wren")]),
     JObj([birdName |-> JStr("Wren"), id |-> JNum(9), userId |-> JNum(2)]),
     JObj([birdName |-> JStr("")]),
     JObj([sightingDate |-> JStr("2024-05-01T00:00:00.000Z")])}

SightingIds == 1..(MaxOwners + 2)

KeeperNext ==
    \/ CreateOwner
    \/ \E userId \in OwnerIds : PostSighting(userId, SightingBody, MaxOwners + 1, MaxOwners)
    \/ \E userId \in {NullUserId} \cup OwnerIds, sightingId \in SightingIds :
          GetSighting(userId, sightingId)
    \/ \E userId \in {NullUserId} \cup OwnerIds, sightingId \in SightingIds,
          body \in UpdateBodies : PutSighting(userId, sightingId, body)
    \/ \E userId \in {NullUserId} \cup OwnerIds, sightingId \in SightingIds :
          DeleteSighting(userId, sightingId)

KeeperSpec == Init /\ [][KeeperNext]_vars

\* a user who changes plan, with identifications, Stripe ids and more sightings
\* than the free plan shows
PlanNext ==
    \/ CreateUser
    \/ \E id \in UserIds, plan \in Plans : UpdateUserSubscription(id, plan)
    \/ \E userId \in UserIds, plan \in Plans : PostSubscriptionUpdate(userId, plan)
    \/ \E id \in UserIds : UpdateUserStripeInfo(id)
    \/ \E userId \in DOMAIN users, result \in StoredResults :
          CreateIdentification(userId, result)
    \/ Tick
    \/ \E userId \in UserIds : PostSighting(userId, SightingBody, MaxSightings, MaxSightings)
    \/ \E userId \in UserIds : GetUserSightings(userId, Undefined)

PlanSpec == Init /\ [][PlanNext]_vars

\* POST /api/sightings of users on the free plan, requests overlapping; a request
\* that runs in one piece is one that nothing overlapped
CrowdNext ==
    \/ CreateUser
    \/ \E userId \in UserIds, body \in SightingBodies :
          PostSighting(userId, body, MaxSightings + MaxCalls, MaxSightings + MaxCalls)
    \/ \E c \in CallIds, userId \in {NullUserId} \cup UserIds, body \in SightingBodies :
          PostSightingAuthenticate(c, userId, body)
    \/ \E c \in CallIds : PostSightingCount(c)
    \/ \E c \in CallIds : PostSightingCreate(c, MaxSightings + MaxCalls)

CrowdSpec == Init /\ [][CrowdNext]_vars

\* ---- the AudioRecorder component ----
MaxDurations == {DefaultMaxDuration, DefaultMaxDuration \div 3}

RecorderInit ==
    /\ users = <<>>
    /\ userIdCounter = 1
    /\ identifications = <<>>
    /\ identificationIdCounter = 1
    /\ sightings = <<>>
    /\ sightingIdCounter = 1
    /\ today = 0
    /\ clock = 0
    /\ last = [op |-> "init", userId |-> NullUserId, ok |-> TRUE]
    /\ streak = [u \in OwnerIds |-> 0]
    /\ created = [u \in {NullUserId} \cup OwnerIds |-> 0]
    /\ calls = [c \in CallIds |-> Idle]
    /\ recorder \in {AudioRecorder(maxDuration) : maxDuration \in MaxDurations}
    /\ input = NoInput
    /\ outcome = NotRun

RecorderNext ==
    \/ StartRecording
    \/ RecordingTimer
    \/ ClickStopRecording
    \/ MediaRecorderOnStop
    \/ ReaderOnLoadEnd

\* the timer and the browser's events are not held back; the user may never click
RecorderSpec ==
    /\ RecorderInit /\ [][RecorderNext]_vars
    /\ WF_vars(RecordingTimer) /\ WF_vars(MediaRecorderOnStop) /\ WF_vars(ReaderOnLoadEnd)

\* ---- the normalizer applied to one response ----
NormInit ==
    /\ users = <<>>
    /\ userIdCounter = 1
    /\ identifications = <<>>
    /\ identificationIdCounter = 1
    /\ sightings = <<>>
    /\ sightingIdCounter = 1
    /\ today = 0
    /\ clock = 0
    /\ last = [op |-> "init", userId |-> NullUserId, ok |-> TRUE]
    /\ streak = [u \in OwnerIds |-> 0]
    /\ created = [u \in {NullUserId} \cup OwnerIds |-> 0]
    /\ calls = [c \in CallIds |-> Idle]
    /\ recorder = AudioRecorder(DefaultMaxDuration)
    /\ input \in [response : Responses, image : Images]
    /\ outcome = NotRun

IdentifyBirdWithGemini ==
    /\ outcome = NotRun
    /\ outcome' = identifyBirdWithGemini(input.response, input.image)
    /\ UNCHANGED <<ledgerVars, sightingVars, clock, input>>

\* the result, as the JSON text it is sent as, is normalized once more
NormalizeAgain ==
    /\ outcome.ok
    /\ "again" \notin DOMAIN outcome
    /\ outcome' = [ok |-> TRUE, result |-> outcome.result,
                   again |-> identifyBirdWithGemini(
                                 [kind |-> "json", parsed |-> JsonRoundTrip(outcome.result)],
                                 input.image)]
    /\ UNCHANGED <<ledgerVars, sightingVars, clock, input>>

NormNext == IdentifyBirdWithGemini \/ NormalizeAgain

NormSpec == NormInit /\ [][NormNext]_vars

\* ======================= the claims =======================
Ran == outcome # NotRun
IsJson == input.response.kind = "json"
Parsed == input.response.parsed
CountingOps == {"incrementDailyIdentificationCount", "createIdentification"}
LastUser == users[last.userId]

\* C1: a free user's daily counter never exceeds the quota of 5 after an
\* increment or an identification, and an identification attempted on the same
\* day by a free user whose counter has reached 5 does not succeed.
C1_DailyQuotaEnforced ==
    (last.op \in CountingOps /\ last.ok /\ last.userId # NullUserId
        /\ LastUser.subscriptionPlan = "free")
    => /\ LastUser.dailyIdentificationsCount <= FreePerDay
       /\ last.op = "createIdentification" => (last.isNewDay \/ last.prior < FreePerDay)

\* C2: after N consecutive same-day calls of incrementDailyIdentificationCount
\* that started from a null or earlier-day lastIdentificationDate, the stored
\* count is N, and the call that made it N returned N.
C2_SequentialIncrementsCount ==
    \A u \in DOMAIN users :
        streak[u] > 0 =>
            /\ users[u].dailyIdentificationsCount = streak[u]
            /\ (last.op = "incrementDailyIdentificationCount" /\ last.userId = u)
                   => last.ret = streak[u]

C2_Witness ==
    /\ last.op = "incrementDailyIdentificationCount" /\ last.ok
    /\ streak[last.userId] = 3
    /\ today > 0

\* C3: when lastIdentificationDate is null or on another day than now, the check
\* reports current = 0 and withinLimit = true whatever the stored counter was,
\* and the increment returns 1 and stores 1.
C3_NewDayBehavesAsZero ==
    /\ (last.op = "checkDailyIdentificationLimit" /\ last.ok /\ last.isNewDay)
       => /\ last.ret.current = 0
          /\ last.ret.withinLimit
          /\ LastUser.dailyIdentificationsCount = 0
    /\ (last.op = "incrementDailyIdentificationCount" /\ last.ok /\ last.isNewDay)
       => /\ last.ret = 1
          /\ LastUser.dailyIdentificationsCount = 1

C3_Witness ==
    /\ last.op = "checkDailyIdentificationLimit" /\ last.ok /\ last.isNewDay
    /\ last.prior >= FreePerDay
    /\ LastUser.subscriptionPlan = "free"

\* C4: a checkDailyIdentificationLimit that directly follows a
\* resetDailyIdentificationCount of the same user on the same day reports
\* current = 0 and withinLimit = true, for a free and for a premium user.
C4_ResetThenCheck ==
    (last.op = "checkDailyIdentificationLimit" /\ last.ok /\ last.afterReset)
    => /\ last.ret.current = 0
       /\ last.ret.withinLimit

C4_Witness ==
    /\ last.op = "checkDailyIdentificationLimit" /\ last.ok /\ last.afterReset
    /\ ~last.isNewDay
    /\ LastUser.subscriptionPlan = "premium"

\* C5: the limit checkDailyIdentificationLimit returns is the per-day limit of
\* the user's plan in every branch: 5 for a free user, -1 for a premium user.
C5_LimitIsPlanLimit ==
    (last.op = "checkDailyIdentificationLimit" /\ last.ok)
    => last.ret.limit = IF LastUser.subscriptionPlan = "premium"
                        THEN UnboundedMarker ELSE FreePerDay

\* C6: every response that carries plan limits writes each unbounded limit of
\* the premium plan as -1.
C6_UnboundedIsMinusOne ==
    /\ (last.op = "GET /api/subscription/plans" /\ last.status = 200)
       => /\ last.body[2].limits.identifications.perDay = JNum(UnboundedMarker)
          /\ last.body[2].limits.sightings.total = JNum(UnboundedMarker)
    /\ (last.op \in {"GET /api/subscription", "POST /api/subscription/update"}
           /\ last.status = 200 /\ last.body.plan = "premium")
       => /\ last.body.limits.identifications.perDay = JNum(UnboundedMarker)
          /\ last.body.limits.sightings.total = JNum(UnboundedMarker)
    /\ (last.op = "GET /api/subscription/daily-limit" /\ last.status = 200
           /\ LastUser.subscriptionPlan = "premium")
       => last.body.limit = JNum(UnboundedMarker)

\* C7: a response whose error flag is set never yields a result; the failure is
\* the one raised by the error-flag check, whatever else the response holds.
C7_ErrorFlagAlwaysFails ==
    (Ran /\ IsJson /\ Truthy(Get(Parsed, "error")))
    => /\ ~outcome.ok
       /\ outcome.cause = "IdentificationFailed"

C7_Witness ==
    /\ Ran /\ IsJson /\ Truthy(Get(Parsed, "error"))
    /\ Get(Get(Parsed, "mainBird"), "name") = JStr("Robin")
    /\ Get(Get(Parsed, "mainBird"), "confidence") = Tenths(500)
    /\ Get(Get(Parsed, "mainBird"), "features") = JArr(<<JStr("Red breast")>>)

\* C8: when the response carries an error flag and a message, the failure that
\* reaches the caller carries that message.
C8_MessageSurfaced ==
    (Ran /\ IsJson /\ Truthy(Get(Parsed, "error")) /\ Truthy(Get(Parsed, "message")))
    => /\ ~outcome.ok
       /\ outcome.message = Get(Parsed, "message")

\* what the caller sees of a failure is its message
SameFailureToCaller(o1, o2) == ~o1.ok /\ ~o2.ok /\ o1.message = o2.message

\* C9: a response without error flag and without a named mainBird never yields
\* a result; it fails as InvalidResponseShape, and the caller can tell that
\* failure from an IdentificationFailed and from a SchemaViolation.
C9_InvalidShapeDistinguishable ==
    (Ran /\ IsJson /\ Parsed.t = "object" /\ ~Truthy(Get(Parsed, "error"))
        /\ ~Truthy(Get(Get(Parsed, "mainBird"), "name")))
    => /\ ~outcome.ok
       /\ outcome.cause = "InvalidResponseShape"
       /\ \A r \in RouteResponses :
            LET o == identifyBirdWithGemini(r, input.image) IN
            (~o.ok /\ o.cause \in {"IdentificationFailed", "SchemaViolation"})
                => ~SameFailureToCaller(o, outcome)

IntegerOrAbsent(c) == c.t = "undefined" \/ (c.t = "number" /\ c.tenths % 10 = 0)

ClampedAsClaimed(cin, cout) ==
    IntegerOrAbsent(cin) =>
        /\ cout.t = "number"
        /\ cout.tenths % 10 = 0
        /\ cout.tenths >= 10 /\ cout.tenths <= 1000
        /\ cin.t = "number" =>
              /\ cin.tenths > 1000 => cout.tenths = 1000
              /\ cin.tenths < 10 => cout.tenths = 10
              /\ (cin.tenths >= 10 /\ cin.tenths <= 1000) => cout = cin

\* C10: for an integer or absent input confidence, the normalized confidence of
\* the main bird and of every similar bird is an integer in [1, 100]: above 100
\* becomes 100, below 1 becomes 1, values in [1, 100] are kept.
C10_ConfidenceClamped ==
    (Ran /\ outcome.ok)
    => /\ ClampedAsClaimed(Get(Get(Parsed, "mainBird"), "confidence"),
                           Get(Get(outcome.result, "mainBird"), "confidence"))
       /\ LET sin == Get(Parsed, "similarBirds")
              sout == Get(outcome.result, "similarBirds")
          IN  sin.t = "array" =>
                  \A i \in 1..Len(sin.v) :
                      ClampedAsClaimed(Get(sin.v[i], "confidence"),
                                       Get(sout.v[i], "confidence"))

\* an absent main confidence, and similar birds at 150 and at -5
C10_Witness ==
    /\ Ran /\ outcome.ok
    /\ Get(Get(Parsed, "mainBird"), "confidence") = Undefined
    /\ Get(Get(outcome.result, "mainBird"), "confidence") = Tenths(10)
    /\ LET sin == Get(Parsed, "similarBirds")
           sout == Get(outcome.result, "similarBirds")
       IN  /\ sin.t = "array"
           /\ \E i, j \in 1..Len(sin.v) :
                 /\ Get(sin.v[i], "confidence") = Tenths(1500)
                 /\ Get(sout.v[i], "confidence") = Tenths(1000)
                 /\ Get(sin.v[j], "confidence") = Tenths(-50)
                 /\ Get(sout.v[j], "confidence") = Tenths(10)

Renormalized == Ran /\ outcome.ok /\ "again" \in DOMAIN outcome

ConfidenceOf(bird) == Get(bird, "confidence")

\* C11: normalizing a result the normalizer produced succeeds and gives the same
\* confidence for the main bird and for every similar bird.
C11_NormalizationIdempotent ==
    Renormalized
    => /\ outcome.again.ok
       /\ ConfidenceOf(Get(outcome.again.result, "mainBird"))
              = ConfidenceOf(Get(outcome.result, "mainBird"))
       /\ LET once == Get(outcome.result, "similarBirds").v
              twice == Get(outcome.again.result, "similarBirds").v
          IN  /\ Len(twice) = Len(once)
              /\ \A i \in 1..Len(once) : ConfidenceOf(twice[i]) = ConfidenceOf(once[i])

\* a result whose confidences came from an absent value, from 50.5 and from 150
C11_Witness ==
    /\ Renormalized
    /\ ConfidenceOf(Get(Parsed, "mainBird")) = Undefined
    /\ LET sin == Get(Parsed, "similarBirds")
           twice == Get(outcome.again.result, "similarBirds").v
       IN  /\ sin.t = "array" /\ Len(sin.v) = 2
           /\ ConfidenceOf(sin.v[1]) = Tenths(505) /\ ConfidenceOf(twice[1]) = Tenths(510)
           /\ ConfidenceOf(sin.v[2]) = Tenths(1500) /\ ConfidenceOf(twice[2]) = Tenths(1000)

\* C12: the similarBirds of every result is a list: empty when the input's
\* similarBirds is absent or no array, and otherwise one entry per input entry in
\* the input's order; it is never undefined.
C12_SimilarBirdsIsList ==
    (Ran /\ outcome.ok)
    => LET sin == Get(Parsed, "similarBirds")
           sout == Get(outcome.result, "similarBirds")
       IN  /\ sout.t = "array"
           /\ IF sin.t = "array"
              THEN /\ Len(sout.v) = Len(sin.v)
                   /\ \A i \in 1..Len(sin.v) :
                        /\ Get(sout.v[i], "name")
                              = OrElse(Get(sin.v[i], "name"), JStr("Unknown Similar Bird"))
                        /\ Get(sout.v[i], "scientificName")
                              = OrElse(Get(sin.v[i], "scientificName"), JStr("Unknown Species"))
                        /\ ConfidenceOf(sout.v[i]) = ClampConfidence(ConfidenceOf(sin.v[i]))
              ELSE sout.v = <<>>

\* a result made from a response whose similarBirds is a string
C12_Witness ==
    /\ Ran /\ outcome.ok
    /\ Get(Parsed, "similarBirds") = JStr("none")
    /\ Get(outcome.result, "similarBirds") = JArr(<<>>)

\* two entries that differ come out in the order they came in
C12_OrderWitness ==
    /\ Ran /\ outcome.ok
    /\ LET sin == Get(Parsed, "similarBirds")
           sout == Get(outcome.result, "similarBirds")
       IN  /\ sin.t = "array" /\ Len(sin.v) = 2
           /\ Get(sin.v[1], "name") = Undefined /\ Get(sin.v[2], "name") = JStr("Wren")
           /\ Get(sout.v[1], "name") = JStr("Unknown Similar Bird")
           /\ Get(sout.v[2], "name") = JStr("Wren")

\* ret holds distinct records of `owned`, newest first, and none that was left
\* out is newer than one that is in; at(r) is the time of a record
NewestFirst(ret, owned, at(_)) ==
    /\ Range(ret) \subseteq owned
    /\ Cardinality(Range(ret)) = Len(ret)
    /\ \A i, j \in 1..Len(ret) : i < j => at(ret[i]) >= at(ret[j])
    /\ \A r \in owned \ Range(ret) : \A i \in 1..Len(ret) : at(r) <= at(ret[i])

SightingTime(r) == getTime(r.sightingDate)
IdentifiedTime(r) == getTime(r.identifiedAt)

\* the limit argument of the last call, with its default
GivenLimit == IF last.limit = Undefined THEN DefaultLimit ELSE LimitValue(last.limit)

\* C13: for a free user with k stored identifications getRecentIdentifications
\* returns min(k, 3) records, min(k, 3, limit) when a limit is passed; all are the
\* user's own, they are the most recent ones and come newest first.
C13_FreeHistoryCap ==
    (last.op = "getRecentIdentifications" /\ last.ok /\ last.userId \in DOMAIN users
        /\ LastUser.subscriptionPlan = "free")
    => LET owned == OwnedIdentifications(last.userId)
       IN  /\ Len(last.ret) = Min(Cardinality(owned), Min(FreeHistory, GivenLimit))
           /\ NewestFirst(last.ret, owned, IdentifiedTime)

\* 3 of more than 3 records come back, not all of one millisecond, while an
\* anonymous record is in the store
C13_Witness ==
    /\ last.op = "getRecentIdentifications" /\ last.ok /\ last.userId \in DOMAIN users
    /\ LastUser.subscriptionPlan = "free"
    /\ Cardinality(OwnedIdentifications(last.userId)) > FreeHistory
    /\ Len(last.ret) = FreeHistory
    /\ IdentifiedTime(last.ret[1]) > IdentifiedTime(last.ret[FreeHistory])
    /\ OwnedIdentifications(NullUserId) # {}

UserOps ==
    {"checkDailyIdentificationLimit", "incrementDailyIdentificationCount",
     "resetDailyIdentificationCount", "getRecentIdentifications", "getUserSightings"}

\* C16: checkDailyIdentificationLimit, incrementDailyIdentificationCount,
\* resetDailyIdentificationCount, getRecentIdentifications(userId) and
\* getUserSightings(userId) fail with NotFound when no user has the given id, and
\* the failed call leaves users, identifications and sightings unchanged.
C16_UnknownUserNotFound ==
    [][(last'.op \in UserOps /\ last'.userId \notin DOMAIN users)
       => /\ ~last'.ok
          /\ last'.error = NotFound(last'.userId)
          /\ UNCHANGED <<users, identifications, sightings>>]_vars

\* C15 (as the code has it): the history cap follows the user's current plan and
\* is 3 for the free and 30 for the premium plan: a user with k stored
\* identifications receives the min(k, cap, limit) newest ones.
C15_HistoryCapByPlan ==
    (last.op = "getRecentIdentifications" /\ last.ok /\ last.userId \in DOMAIN users)
    => LET owned == OwnedIdentifications(last.userId)
           cap == IF LastUser.subscriptionPlan = "premium"
                  THEN PremiumHistory ELSE FreeHistory
       IN  /\ Len(last.ret) = Min(Cardinality(owned), Min(cap, GivenLimit))
           /\ NewestFirst(last.ret, owned, IdentifiedTime)

\* a premium user with more than 30 identifications asks for all and gets 30
C15_Witness ==
    /\ last.op = "getRecentIdentifications" /\ last.ok /\ last.userId \in DOMAIN users
    /\ LastUser.subscriptionPlan = "premium"
    /\ Cardinality(OwnedIdentifications(last.userId)) > PremiumHistory
    /\ GivenLimit > PremiumHistory
    /\ Len(last.ret) = PremiumHistory

\* C15 (as stated): for a premium user the history cap is unbounded: with k
\* stored identifications and a limit of at least k, all k are returned.
C15_PremiumHistoryUnbounded ==
    (last.op = "getRecentIdentifications" /\ last.ok /\ last.userId \in DOMAIN users
        /\ LastUser.subscriptionPlan = "premium"
        /\ GivenLimit >= Cardinality(OwnedIdentifications(last.userId)))
    => Range(last.ret) = OwnedIdentifications(last.userId)

\* C14: getUserSightings returns the user's own sightings newest first; for a
\* premium user and no explicit limit all of them, however many; for a free user
\* the 10 newest at most, also when the explicit limit is above 10.
C14_SightingsByPlan ==
    (last.op = "getUserSightings" /\ last.ok)
    => LET owned == OwnedSightings(last.userId)
           k == Cardinality(owned)
       IN  /\ NewestFirst(last.ret, owned, SightingTime)
           /\ (LastUser.subscriptionPlan = "premium" /\ last.limit = Undefined)
                 => Range(last.ret) = owned
           /\ LastUser.subscriptionPlan = "free"
                 => /\ Len(last.ret) <= FreeSightings
                    /\ Len(last.ret) =
                          Min(k, IF last.limit = Undefined THEN FreeSightings
                                 ELSE Min(LimitValue(last.limit), FreeSightings))

\* a premium user gets more than 10 sightings back
C14_Witness ==
    /\ last.op = "getUserSightings" /\ last.ok
    /\ LastUser.subscriptionPlan = "premium" /\ last.limit = Undefined
    /\ Len(last.ret) > FreeSightings
    /\ \E r \in Range(sightings) : r.userId # last.userId
    /\ \E i, j \in 1..Len(last.ret) :
          SightingTime(last.ret[i]) > SightingTime(last.ret[j])

\* a free user owning 11 sightings asks for 12 and gets 10
C14_FreeWitness ==
    /\ last.op = "getUserSightings" /\ last.ok
    /\ LastUser.subscriptionPlan = "free"
    /\ last.limit # Undefined /\ LimitValue(last.limit) > FreeSightings
    /\ Cardinality(OwnedSightings(last.userId)) > FreeSightings
    /\ Len(last.ret) = FreeSightings

\* C17: a POST /api/sightings of a free user who owns 10 or more sightings is
\* answered 403 and leaves the sightings store as it was; a premium user is
\* never answered 403, however many sightings that user owns.
C17_SightingCapAtRoute ==
    [][(last'.op = "POST /api/sightings" /\ last'.userId \in DOMAIN users)
       => LET plan == users[last'.userId].subscriptionPlan
              owns == Cardinality(OwnedSightings(last'.userId))
          IN  /\ (plan = "free" /\ owns >= FreeSightings)
                    => /\ last'.status = 403
                       /\ sightings' = sightings
                       /\ sightingIdCounter' = sightingIdCounter
              /\ (plan = "free" /\ owns < FreeSightings) => last'.status # 403
              /\ plan = "premium" => last'.status # 403]_vars

\* a free user who owns exactly 10 sightings is turned away
C17_Witness ==
    /\ last.op = "POST /api/sightings" /\ last.status = 403
    /\ LastUser.subscriptionPlan = "free"
    /\ Cardinality(OwnedSightings(last.userId)) = FreeSightings

\* a premium user who owns more than 10 sightings stores one more
C17_PremiumWitness ==
    /\ last.op = "POST /api/sightings" /\ last.status = 201
    /\ LastUser.subscriptionPlan = "premium"
    /\ Cardinality(OwnedSightings(last.userId)) > FreeSightings + 1

IdentifyRoutes == {"POST /api/identify", "POST /api/upload"}

\* C18: POST /api/identify and POST /api/upload store a record only for a result
\* that identifyBirdWithGemini returned, which satisfies the schema; when the
\* identification or the normalization fails, no record is created, no id is
\* taken, no user changes, and the response is an error.
C18_StoreOnlyValidatedResults ==
    [][last'.op \in IdentifyRoutes
       => /\ users' = users
          /\ IF last'.status = 200
             THEN /\ identificationResultSchema(last'.body)
                  /\ Len(identifications') = Len(identifications) + 1
                  /\ SubSeq(identifications', 1, Len(identifications)) = identifications
                  /\ identifications'[Len(identifications')].result = last'.body
                  /\ identifications'[Len(identifications')].userId = NullUserId
             ELSE /\ last'.status >= 400
                  /\ UNCHANGED <<identifications, identificationIdCounter>>]_vars

\* a failed identification answered 500 while a record and a counted user exist
C18_Witness ==
    /\ last.op \in IdentifyRoutes /\ last.status = 500
    /\ last.body.error = ParseErrorMessage
    /\ Len(identifications) = 1
    /\ \E u \in DOMAIN users : users[u].dailyIdentificationsCount > 0

\* C19: checkDailyIdentificationLimit changes the user only on a day rollover:
\* with lastIdentificationDate null or on another day it sets the counter to 0
\* and lastIdentificationDate to now, so that a check that follows on the same
\* day is no rollover; with lastIdentificationDate on today it changes nothing.
\* Nothing but that user's record changes in either case.
C19_CheckMutatesOnRollover ==
    [][(last'.op = "checkDailyIdentificationLimit" /\ last'.ok)
       => LET id == last'.userId IN
          /\ IF IsNewDay(users[id], today)
             THEN /\ users' = [users EXCEPT
                                 ![id].dailyIdentificationsCount = 0,
                                 ![id].lastIdentificationDate = JDate(today)]
                  /\ ~IsNewDay(users'[id], today')
             ELSE users' = users
          /\ UNCHANGED <<userIdCounter, identifications, identificationIdCounter,
                         sightings, sightingIdCounter>>]_vars

\* a check that found a counter above 0 from an earlier day
C19_Witness ==
    /\ last.op = "checkDailyIdentificationLimit" /\ last.ok
    /\ last.isNewDay /\ last.prior > 0
    /\ LastUser.dailyIdentificationsCount = 0
    /\ LastUser.lastIdentificationDate = JDate(today)
    /\ today > 0

\* a check on the day of the last identification
C19_SameDayWitness ==
    /\ last.op = "checkDailyIdentificationLimit" /\ last.ok
    /\ ~last.isNewDay /\ last.prior > 0
    /\ LastUser.dailyIdentificationsCount = last.prior

\* C20: a successful createIdentification for a user increments that user's
\* counter exactly once (to count + 1 on the day of the last identification, to
\* 1 on a new day) and changes no other user; for the anonymous user (userId
\* null) it changes no user at all.
C20_OneIncrementPerIdentification ==
    [][(last'.op = "createIdentification" /\ last'.ok)
       => LET id == last'.userId IN
          /\ DOMAIN users' = DOMAIN users
          /\ \A u \in DOMAIN users \ {id} : users'[u] = users[u]
          /\ id # NullUserId
               => users' = [users EXCEPT
                              ![id].dailyIdentificationsCount =
                                  IF IsNewDay(users[id], today) THEN 1 ELSE @ + 1,
                              ![id].lastIdentificationDate = JDate(today)]]_vars

\* an identification of user 1, counted on top of earlier ones of the day, while
\* user 2 has a counter of its own
C20_Witness ==
    /\ last.op = "createIdentification" /\ last.ok /\ last.userId = 1
    /\ ~last.isNewDay /\ last.prior > 0
    /\ users[1].dailyIdentificationsCount = last.prior + 1
    /\ 2 \in DOMAIN users /\ users[2].dailyIdentificationsCount > 0

\* an anonymous identification while a user has a counter above 0
C20_AnonymousWitness ==
    /\ last.op = "createIdentification" /\ last.ok /\ last.userId = NullUserId
    /\ \E u \in DOMAIN users : users[u].dailyIdentificationsCount > 0

\* C21: a createIdentification that fails because its userId names no user writes
\* nothing: identifications, users and the next identification id are as before.
C21_FailedCreateWritesNothing ==
    [][(last'.op = "createIdentification" /\ ~last'.ok)
       => UNCHANGED <<identifications, users, identificationIdCounter>>]_vars

\* the part of C21 the code keeps: no record and no user is written
C21_FailedCreateStoresNothing ==
    [][(last'.op = "createIdentification" /\ ~last'.ok)
       => UNCHANGED <<identifications, users>>]_vars

\* C22: the unbounded limit is never taken as smaller than a count: for a premium
\* user checkDailyIdentificationLimit returns withinLimit = true whatever the daily
\* counter is, and for a free user withinLimit is true exactly when the day's
\* counter (the one the call reports and leaves stored) is below 5.
C22_UnboundedNeverSmaller ==
    (last.op = "checkDailyIdentificationLimit" /\ last.ok)
    => /\ last.ret.current = LastUser.dailyIdentificationsCount
       /\ LastUser.subscriptionPlan = "premium" => last.ret.withinLimit
       /\ LastUser.subscriptionPlan = "free"
              => (last.ret.withinLimit <=> LastUser.dailyIdentificationsCount < FreePerDay)

\* a premium user whose counter of the day is above the free quota
C22_Witness ==
    /\ last.op = "checkDailyIdentificationLimit" /\ last.ok /\ ~last.isNewDay
    /\ LastUser.subscriptionPlan = "premium"
    /\ LastUser.dailyIdentificationsCount > FreePerDay
    /\ last.ret.withinLimit

\* a free user at the quota on the same day is refused, one below it is not
C22_FreeWitness ==
    /\ last.op = "checkDailyIdentificationLimit" /\ last.ok /\ ~last.isNewDay
    /\ LastUser.subscriptionPlan = "free"
    /\ LastUser.dailyIdentificationsCount = FreePerDay
    /\ ~last.ret.withinLimit

\* every record of the store is where it was, with every field it had
RecordsKept ==
    /\ Len(identifications') >= Len(identifications)
    /\ SubSeq(identifications', 1, Len(identifications)) = identifications

\* C23: the plan's history limit only hides records: getRecentIdentifications,
\* getUserIdentificationCount, limit checks and plan changes remove or alter no
\* stored identification, so getUserIdentificationCount(userId) is the number of
\* successful createIdentification calls for that user, and a stored record
\* keeps its id, owner, image reference, result and creation time.
C23_TruncationOnlyHides ==
    /\ [](\A u \in DOMAIN created :
              getUserIdentificationCount(identifications, u) = created[u])
    /\ [](last.op = "getUserIdentificationCount" => last.ret = created[last.userId])
    /\ [][RecordsKept]_vars
    /\ [][last'.op # "createIdentification" => UNCHANGED identifications]_vars

\* a user back on the free plan has more records than the plan shows, and the
\* count taken after a truncated query is the number created
C23_Witness ==
    /\ last.op = "getUserIdentificationCount" /\ last.userId \in DOMAIN users
    /\ LastUser.subscriptionPlan = "free" /\ LastUser.subscriptionEndDate = Undefined
    /\ created[last.userId] > FreeHistory
    /\ last.ret = created[last.userId]
    /\ created[NullUserId] > 0

\* C24: every result of a successful normalization has a main bird with at least
\* one feature: an absent features field gives the literal default list of one
\* entry, and a features list that is present but empty gives no result with an
\* empty features list.
C24_AtLeastOneFeature ==
    (Ran /\ outcome.ok)
    => LET fin == Get(Get(Parsed, "mainBird"), "features")
           fout == Get(Get(outcome.result, "mainBird"), "features")
       IN  /\ fout.t = "array" /\ Len(fout.v) >= 1
           /\ fin = Undefined => fout = DefaultFeatures

\* the part of C24 the code keeps: the default for an absent field, and a list
\* that is not empty is passed on as it is
C24_FeaturesDefaulted ==
    (Ran /\ outcome.ok)
    => LET fin == Get(Get(Parsed, "mainBird"), "features")
           fout == Get(Get(outcome.result, "mainBird"), "features")
       IN  /\ fout.t = "array"
           /\ fin = Undefined => fout = DefaultFeatures
           /\ fin # Undefined => fout = fin

\* the call of the step just taken, before the step
LastCall == calls[last'.call]

\* C25: check-then-increment is a race when two requests of one user overlap.  A
\* check of a free user whose counter is 4 on the current day answers
\* withinLimit = true and leaves the counter at 4, whatever other requests have
\* been told, so that a second request's check gets the same answer before the
\* first one's increment is applied.
C25_CheckThenIncrementRace ==
    [][(/\ last'.op = "checkDailyIdentificationLimit" /\ last'.ok /\ "call" \in DOMAIN last'
        /\ users[last'.userId].subscriptionPlan = "free"
        /\ ~IsNewDay(users[last'.userId], today)
        /\ users[last'.userId].dailyIdentificationsCount = FreePerDay - 1
        /\ LastCall.user = users[last'.userId])
       => /\ last'.ret.withinLimit
          /\ users'[last'.userId].dailyIdentificationsCount = FreePerDay - 1]_vars

\* both requests have been told withinLimit = true at counter 4 and neither has
\* been through its increment
C25_Witness ==
    \E c1, c2 \in CallIds :
        /\ c1 # c2
        /\ calls[c1].pc = "checked" /\ calls[c2].pc = "checked"
        /\ calls[c1].userId = calls[c2].userId
        /\ calls[c1].ret.withinLimit /\ calls[c2].ret.withinLimit
        /\ calls[c1].ret.current = FreePerDay - 1 /\ calls[c2].ret.current = FreePerDay - 1
        /\ LET user == users[calls[c1].userId]
           IN  /\ user.subscriptionPlan = "free"
               /\ user.dailyIdentificationsCount = FreePerDay - 1
               /\ ~IsNewDay(user, today)

\* where the race ends: both increments applied, the free user's counter is 6
C25_OverrunWitness ==
    \E c1, c2 \in CallIds :
        /\ c1 # c2
        /\ calls[c1].pc = "done" /\ calls[c2].pc = "done"
        /\ calls[c1].checked /\ calls[c2].checked
        /\ calls[c1].userId = calls[c2].userId
        /\ LET user == users[calls[c1].userId]
           IN  /\ user.subscriptionPlan = "free"
               /\ user.dailyIdentificationsCount = FreePerDay + 1

\* C26: no increment is lost when calls overlap: every
\* incrementDailyIdentificationCount that completes on the day of the stored
\* lastIdentificationDate leaves the stored counter one higher than it was, so k
\* calls leave it k higher, and a checkDailyIdentificationLimit that completes on
\* that day leaves the counter as it was.
C26_NoIncrementLost ==
    [][/\ (last'.op = "incrementDailyIdentificationCount" /\ last'.ok
              /\ ~IsNewDay(users[last'.userId], today))
          => users'[last'.userId].dailyIdentificationsCount
                 = users[last'.userId].dailyIdentificationsCount + 1
       /\ (last'.op = "checkDailyIdentificationLimit" /\ last'.ok
              /\ ~IsNewDay(users[last'.userId], today))
          => users'[last'.userId].dailyIdentificationsCount
                 = users[last'.userId].dailyIdentificationsCount]_vars

\* C27: a user who stays on the free plan never owns more than 10 stored
\* sightings, also when POST /api/sightings requests of that user overlap between
\* the count check and the createSighting call.
C27_FreeSightingsCapped ==
    \A u \in DOMAIN users :
        users[u].subscriptionPlan = "free"
            => getUserSightingCount(sightings, u) <= FreeSightings

ByIdRoutes ==
    {"GET /api/sightings/:id", "PUT /api/sightings/:id", "DELETE /api/sightings/:id"}

\* the sighting the request of the step just taken names, before the step
Requested == getSighting(sightings, last'.sightingId)

\* every sighting that is still stored has the id and the owner it had
OwnersKept ==
    \A i \in 1..Len(sightings) :
        LET after == getSighting(sightings', sightings[i].id)
        IN  after # Undefined => after.userId = sightings[i].userId

\* C28: GET, PUT and DELETE /api/sightings/:id take effect only for the user whose
\* id is the sighting's userId: for another user the answer is 403 and the store
\* is as it was, for an id that is not stored the answer is 404, and no request
\* changes the id or the userId of a stored sighting.
C28_OnlyTheOwner ==
    [][/\ (last'.op \in ByIdRoutes /\ last'.userId \in DOMAIN users)
          => /\ Requested = Undefined
                    => last'.status = 404 /\ UNCHANGED <<sightings, users, identifications>>
             /\ (Requested # Undefined /\ Requested.userId # last'.userId)
                    => last'.status = 403 /\ UNCHANGED <<sightings, users, identifications>>
       /\ (last'.op \in ByIdRoutes /\ (last'.ok \/ sightings' # sightings))
          => /\ last'.userId \in DOMAIN users
             /\ Requested # Undefined /\ Requested.userId = last'.userId
       /\ OwnersKept]_vars

\* a user's PUT on the other account's sighting, with a body that names itself
\* as the owner, is answered 403
C28_Witness ==
    /\ last.op = "PUT /api/sightings/:id" /\ last.status = 403
    /\ last.userId \in DOMAIN users
    /\ getSighting(sightings, last.sightingId).userId \notin {last.userId, NullUserId}
    /\ getSighting(sightings, last.sightingId).birdName = JStr("Robin")

\* the owner's PUT takes effect and leaves id and userId alone, whether or not
\* the body names another id and owner
C28_OwnerWitness ==
    /\ last.op = "PUT /api/sightings/:id" /\ last.status = 200
    /\ last.body.birdName = JStr("Wren")
    /\ last.body.userId = last.userId /\ last.body.id = last.sightingId
    /\ Len(sightings) > 1

\* the owner's DELETE removes the sighting, after which its id answers 404
C28_MissingWitness ==
    /\ last.op = "GET /api/sightings/:id" /\ last.status = 404
    /\ last.sightingId < sightingIdCounter

PlanChanges == {"updateUserSubscription", "POST /api/subscription/update"}

\* the step just taken is a change of plan that succeeded
PlanChanged == last'.op \in PlanChanges /\ last'.ok

\* the last thing that happened is a change of plan that succeeded
AfterPlanChange == last.op \in PlanChanges /\ last.ok

\* C29: updateUserSubscription changes the user's subscriptionPlan and
\* subscriptionEndDate and nothing else: the daily counter,
\* lastIdentificationDate, the Stripe ids and every stored identification and
\* sighting are as before; after a switch to free no end date is left; and the
\* new plan's caps hold for the very next operation: getUserSightings returns the
\* 10 newest of a free user's sightings and all of a premium user's, and POST
\* /api/sightings is refused for a free user with 10 or more.
C29_PlanChangeFrame ==
    [][/\ PlanChanged
          => /\ users' = [users EXCEPT ![last'.userId] =
                    [@ EXCEPT !.subscriptionPlan = users'[last'.userId].subscriptionPlan,
                              !.subscriptionEndDate = users'[last'.userId].subscriptionEndDate]]
             /\ UNCHANGED <<identifications, identificationIdCounter, sightings,
                            sightingIdCounter, userIdCounter>>
             /\ users'[last'.userId].subscriptionPlan = "free"
                    => ~HasDate(users'[last'.userId].subscriptionEndDate)
             /\ users'[last'.userId].subscriptionPlan = "premium"
                    => HasDate(users'[last'.userId].subscriptionEndDate)
       /\ (AfterPlanChange /\ last'.op = "getUserSightings" /\ last'.userId = last.userId)
          => LET owned == OwnedSightings(last.userId)
                 cap == IF users[last.userId].subscriptionPlan = "free"
                        THEN FreeSightings ELSE Cardinality(owned)
             IN  /\ last'.ok
                 /\ Len(last'.ret) = Min(Cardinality(owned), cap)
                 /\ NewestFirst(last'.ret, owned, SightingTime)
       /\ (AfterPlanChange /\ last'.op = "POST /api/sightings" /\ last'.userId = last.userId)
          => IF users[last.userId].subscriptionPlan = "free"
                /\ Cardinality(OwnedSightings(last.userId)) >= FreeSightings
             THEN last'.status = 403 /\ UNCHANGED sightings
             ELSE last'.status = 201 /\ Len(sightings') = Len(sightings) + 1]_vars

\* a downgrade of a user with 11 sightings, Stripe ids and a counter in use
C29_Witness ==
    /\ AfterPlanChange
    /\ LastUser.subscriptionPlan = "free" /\ LastUser.subscriptionEndDate = Undefined
    /\ Cardinality(OwnedSightings(last.userId)) > FreeSightings
    /\ LastUser.stripeCustomerId = JStr("cus_1")
    /\ LastUser.dailyIdentificationsCount > 0
    /\ HasDate(LastUser.lastIdentificationDate)
    /\ OwnedIdentifications(last.userId) # {}

\* the query after the downgrade hides one sighting
C29_HiddenWitness ==
    /\ last.op = "getUserSightings" /\ last.ok
    /\ LastUser.subscriptionPlan = "free" /\ LastUser.subscriptionEndDate = Undefined
    /\ Cardinality(OwnedSightings(last.userId)) > FreeSightings
    /\ Len(last.ret) = FreeSightings
    /\ SightingTime(last.ret[1]) > SightingTime(last.ret[FreeSightings])

\* the query after the upgrade that follows returns it again
C29_ShownWitness ==
    /\ last.op = "getUserSightings" /\ last.ok
    /\ LastUser.subscriptionPlan = "premium"
    /\ Len(last.ret) > FreeSightings

\* ---- C30 ----
\* C30: a recording the user does not stop is stopped by the timer: in the timer
\* step in which recordingTime reaches maxDuration, the callback's stopRecording
\* stops the MediaRecorder, sets isRecording to false and clears the interval.
C30_TimerStopsRecording ==
    [][(/\ recorder.timer
        /\ recorder.recordingTime + 1 >= recorder.maxDuration
        /\ recorder'.stoppedBy # "user")
       => (/\ recorder'.mediaRecorder = "inactive"
           /\ ~recorder'.isRecording
           /\ ~recorder'.timer)]_vars

\* What the component does instead: the timer never stops a recording.  Until the
\* user clicks Stop the MediaRecorder records, isRecording stays true, the interval
\* stays set and nothing is delivered, with recordingTime held at maxDuration.
C30_OnlyTheUserStops ==
    /\ recorder.stoppedBy # "timer"
    /\ recorder.recordingTime <= recorder.maxDuration
    /\ (recorder.mediaRecorder # "none" /\ recorder.stoppedBy = "none")
       => (/\ recorder.mediaRecorder = "recording"
           /\ recorder.isRecording
           /\ recorder.timer
           /\ recorder.delivered = 0)

\* a recording left alone, at maxDuration and still running
C30_StillRecordingAtMax ==
    /\ recorder.recordingTime = recorder.maxDuration
    /\ recorder.maxDuration = DefaultMaxDuration
    /\ recorder.mediaRecorder = "recording"
    /\ recorder.isRecording /\ recorder.timer

\* The Stop button does what the claim says of the timer: the recording it stops
\* is delivered, once.
C30_ManualStopDelivers ==
    /\ [](recorder.delivered <= 1)
    /\ (recorder.stoppedBy = "user") ~> (recorder.delivered = 1)
====
